---------------------------- MODULE Spec2Model ----------------------------
(***************************************************************************)
(* A model of broadlink-rm-ts: the discovery engine (class Broadlink) and  *)
(* the device session (class BroadlinkDevice) with its packet codec, its   *)
(* command dispatcher and the RF learning operations sweepFrequency and    *)
(* confirmFrequency.                                                       *)
(*                                                                         *)
(* Buffers are sequences of bytes (0..255); source offsets are 0-based and *)
(* are written as in the source, At(buf, off) reads one.                   *)
(***************************************************************************)
EXTENDS Integers, Sequences, FiniteSets, TLC

VARIABLES
    devices,    \* Broadlink.devices: hex identity -> BroadlinkDevice
    sockets,    \* Broadlink.sockets: the discovery sockets, in creation order
    out,        \* the datagrams handed to socket.send by the last step
    notes,      \* the notifications emitted (EventEmitter.emit) by the last step
    last,       \* the last step: operation, session, returned value, input
    budget      \* how many API calls and incoming datagrams have happened

vars == <<devices, sockets, out, notes, last, budget>>

-----------------------------------------------------------------------------
(* Bounds of the model. *)

\* API calls (discover, sweepFrequency, ...) made by the application.
MaxCalls == 2
\* Datagrams delivered to a socket.
MaxReplies == 2

\* The number of packets a session sends in a row: one full cycle of its
\* 16-bit sequence counter.
MaxSends == 65536

\* The length of the longest learned code sent.
MaxCode == 76

\* The resolution of the random numbers drawn: Math.random() is one of the
\* multiples of 1 / RandomSteps in [0, 1), fine enough for a 16-bit value
\* scaled from it to take every value.
RandomSteps == 65536

-----------------------------------------------------------------------------
(* Bytes and buffers. *)

Byte == 0..255

Min(a, b) == IF a < b THEN a ELSE b

\* buf[off] of the source, off counted from 0.
At(buf, off) == buf[off + 1]

\* Buffer.alloc(n, 0)
Alloc(n) == [i \in 1..n |-> 0]

\* buf with buf[off] = v
Put(buf, off, v) == [buf EXCEPT ![off + 1] = v]

\* source.copy(target, targetStart, sourceStart, sourceEnd): the bytes
\* source[sourceStart..sourceEnd) written at target[targetStart..], as many
\* as fit in the target; the result is the target after the copy.
BufferCopy(source, target, targetStart, sourceStart, sourceEnd) ==
    LET n == Min(Min(sourceEnd, Len(source)) - sourceStart,
                 Len(target) - targetStart)
    IN  [i \in 1..Len(target) |->
            IF i - 1 >= targetStart /\ i - 1 < targetStart + n
            THEN source[sourceStart + (i - targetStart)]
            ELSE target[i]]

\* x & 0xff, x >> 8 and lo | (hi << 8) on 16-bit values
LoByte(x) == x % 256
HiByte(x) == x \div 256
Word(lo, hi) == lo + 256 * hi

HexChars == <<"0", "1", "2", "3", "4", "5", "6", "7",
              "8", "9", "a", "b", "c", "d", "e", "f">>

\* buf.toString('hex'): two hex digits per byte
ToHex(buf) ==
    [i \in 1..(2 * Len(buf)) |->
        LET b == buf[(i + 1) \div 2]
        IN  IF i % 2 = 1 THEN HexChars[(b \div 16) + 1] ELSE HexChars[(b % 16) + 1]]

-----------------------------------------------------------------------------
(* The device classification tables (ids only; the names are log text). *)

rmDeviceTypes ==
    { \H2737, \H27c7, \H27c2, \H27de, \H5f36, \H273d, \H2712, \H2783,
      \H277c, \H278f }

rmPlusDeviceTypes ==
    { \H272a, \H2787, \H278b, \H2797, \H27a1, \H27a6, \H279d, \H27a9,
      \H27c3 }

unsupportedDeviceTypes ==
    { 0, \H2711, \H2719, \H7919, \H271a, \H791a, \H2733, \H273e, \H2720,
      \H7d07, \H753e, \H2728, \H2736, \H2714, \H4EB5, \H2722, \H4E4D,
      \H4ead, \H947a }

-----------------------------------------------------------------------------
(* AES-128-CBC as the session uses it.  The block cipher itself is Node's  *)
(* crypto library; it is modelled as a keyed, invertible permutation of    *)
(* 16-byte blocks, chained as CBC chains them.                             *)

BlockSize == 16

RECURSIVE Xor8(_, _, _)
\* a ^ b on the low `bits` bits
Xor8(a, b, bits) ==
    IF bits = 0 THEN 0
    ELSE ((a + b) % 2) + 2 * Xor8(a \div 2, b \div 2, bits - 1)

\* a ^ b for all pairs of bytes
XorTable == [a \in Byte |-> [b \in Byte |-> Xor8(a, b, 8)]]

XorBuf(a, b) == [i \in 1..Len(a) |-> XorTable[a[i]][b[i]]]

BlockEncrypt(key, block) == [i \in 1..BlockSize |-> (block[i] + key[i]) % 256]
BlockDecrypt(key, block) == [i \in 1..BlockSize |-> (block[i] + 256 - key[i]) % 256]

\* block j (from 1) of buf
BlockOf(buf, j) == SubSeq(buf, (j - 1) * BlockSize + 1, j * BlockSize)

RECURSIVE CbcEncryptFrom(_, _, _, _)
CbcEncryptFrom(key, prev, plain, j) ==
    IF j * BlockSize > Len(plain) THEN <<>>
    ELSE LET c == BlockEncrypt(key, XorBuf(BlockOf(plain, j), prev))
         IN  c \o CbcEncryptFrom(key, c, plain, j + 1)

\* The cipher with a trailing partial block filled up with zero bytes.
CipherUpdate_zeroFilled(key, iv, plain) ==
    LET fill == (BlockSize - (Len(plain) % BlockSize)) % BlockSize
    IN  CbcEncryptFrom(key, iv, plain \o [i \in 1..fill |-> 0], 1)

\* The cipher with final() called: one more block, of padding.
CipherUpdate_withFinal(key, iv, plain) ==
    LET pad == BlockSize - (Len(plain) % BlockSize)
    IN  CbcEncryptFrom(key, iv, plain \o [i \in 1..pad |-> pad], 1)

\* createCipheriv('aes-128-cbc', key, iv).update(plain): the ciphertext of
\* the complete blocks of plain (final() is never called on the send path).
CipherUpdate(key, iv, plain) == CbcEncryptFrom(key, iv, plain, 1)

RECURSIVE CbcDecryptFrom(_, _, _, _)
CbcDecryptFrom(key, prev, ct, j) ==
    IF j * BlockSize > Len(ct) THEN <<>>
    ELSE LET c == BlockOf(ct, j)
         IN  XorBuf(BlockDecrypt(key, c), prev) \o CbcDecryptFrom(key, c, ct, j + 1)

\* createDecipheriv('aes-128-cbc', key, iv) with setAutoPadding(false):
\* update(ct) followed by final(), for a ciphertext of complete blocks.
Decipher(key, iv, ct) == CbcDecryptFrom(key, iv, ct, 1)

-----------------------------------------------------------------------------
(* The wraparound checksum. *)

ChecksumSeed == \Hbeaf

RECURSIVE MaskedSum(_, _, _)
\* What the loop  checksum += buf[i]; checksum = checksum & 0xffff  adds
\* over buf[lo..hi]: the mask is applied after every addition, so every
\* partial sum is masked.  (The range is halved to keep the evaluation
\* shallow.)
MaskedSum(buf, lo, hi) ==
    IF lo > hi THEN 0
    ELSE IF lo = hi THEN buf[lo] % 65536
    ELSE LET mid == (lo + hi) \div 2
         IN  (MaskedSum(buf, lo, mid) + MaskedSum(buf, mid + 1, hi)) % 65536

RECURSIVE PlainSum(_, _, _)
\* What the loop  checksum += buf[i]  adds over buf[lo..hi], unmasked.
PlainSum(buf, lo, hi) ==
    IF lo > hi THEN 0
    ELSE IF lo = hi THEN buf[lo]
    ELSE LET mid == (lo + hi) \div 2
         IN  PlainSum(buf, lo, mid) + PlainSum(buf, mid + 1, hi)

\* The checksum started from 0 instead of 0xbeaf.
Checksum_unseeded(buf) == MaskedSum(buf, 1, Len(buf))

\* The checksum of sendPacket: seed 0xbeaf, masked at every step.
Checksum(buf) == (ChecksumSeed + MaskedSum(buf, 1, Len(buf))) % 65536

-----------------------------------------------------------------------------
(* class BroadlinkDevice: construction. *)

PresharedKey ==
    << \H09, \H76, \H28, \H34, \H3f, \He9, \H9e, \H23,
       \H76, \H5c, \H15, \H13, \Hac, \Hcf, \H8b, \H02 >>

PresharedIv ==
    << \H56, \H2e, \H17, \H99, \H6d, \H09, \H3d, \H28,
       \Hdd, \Hb3, \Hba, \H69, \H5a, \H2e, \H6f, \H58 >>

\* The numerators k of the values k / RandomSteps of Math.random().
Draws == 0..(RandomSteps - 1)

\* Math.random() & 0xffff for Math.random() = k / RandomSteps: the operand
\* of & is converted to a 32-bit integer, which drops its fraction.
MathRandomAnd(k) == (k \div RandomSteps) % 65536

\* Math.random() & 0xffff: the operand of & is converted to a 32-bit
\* integer, and Math.random() lies in [0, 1).
RandomCount == 0

\* new BroadlinkDevice(host, mac, type).  sweepHandler and confirmHandler
\* hold 0 for undefined and otherwise the index of the promise in sweeps,
\* respectively confirms.  listeners are the EventEmitter's, per event, in
\* registration order; timers are the pending setTimeout calls.
BroadlinkDevice(host, mac, type) ==
    [ host           |-> host,
      mac            |-> mac,
      type           |-> type,
      count          |-> RandomCount % 65536,
      key            |-> PresharedKey,
      iv             |-> PresharedIv,
      id             |-> <<0, 0, 0, 0>>,
      capabilites    |-> [RF |-> type \in rmPlusDeviceTypes],
      sweepHandler   |-> 0,
      confirmHandler |-> 0,
      sweeps         |-> <<>>,
      confirms       |-> <<>>,
      listeners      |-> [sweep |-> <<>>, data |-> <<>>, deviceReady |-> <<>>],
      timers         |-> <<>> ]

\* What a handler has done so far: the session, the datagrams sent, the
\* notifications emitted, the sweep/data listeners that were called.
\* ret is the value the operation returns (a promise of the session, by its
\* index; 0 when the operation returns nothing).
Effect(d) == [d |-> d, out |-> <<>>, notes |-> <<>>, ran |-> <<>>, ret |-> 0]

-----------------------------------------------------------------------------
(* BroadlinkDevice.sendPacket *)

\* Buffer.alloc(0x38, 0) with the fields sendPacket sets before the
\* checksums, written out in the order of their offsets.
PacketHeader(d, command, count) ==
    << \H5a, \Ha5, \Haa, \H55, \H5a, \Ha5, \Haa, \H55 >>        \* 0x00..0x07
    \o Alloc(\H24 - \H08)                                       \* 0x08..0x23
    \o << \H2a, \H27, command, 0 >>                             \* 0x24..0x27
    \o << LoByte(count), HiByte(count) >>                       \* 0x28..0x29
    \o << At(d.mac, 5), At(d.mac, 4), At(d.mac, 3),
          At(d.mac, 2), At(d.mac, 1), At(d.mac, 0) >>           \* 0x2a..0x2f
    \o << At(d.id, 0), At(d.id, 1), At(d.id, 2), At(d.id, 3) >> \* 0x30..0x33
    \o Alloc(\H38 - \H34)                                       \* 0x34..0x37

\* The counter incremented by two.
NextCount_twice(count) == (count + 2) % 65536

\* The next value of the sequence counter.
NextCount(count) == (count + 1) % 65536

\* The packet sendPacket(command, payload) builds, for the counter value
\* it carries.
BuildPacket(d, command, payload, count) ==
    LET checksum == Checksum(payload)
        cipher   == CipherUpdate(d.key, d.iv, payload)
        header   == Put(Put(PacketHeader(d, command, count),
                            \H34, LoByte(checksum)), \H35, HiByte(checksum))
        packet   == header \o cipher
        whole    == Checksum(packet)
    IN  Put(Put(packet, \H20, LoByte(whole)), \H21, HiByte(whole))

\* sendPacket(command, payload) within a handler
sendPacket(e, command, payload) ==
    LET count == NextCount(e.d.count)
    IN  [e EXCEPT !.d.count = count,
                  !.out = Append(@, [to   |-> e.d.host,
                                     data |-> BuildPacket(e.d, command, payload, count)])]

\* Buffer.alloc(16, 0) with packet[0] = op
CommandPayload(op) == Put(Alloc(16), 0, op)

authenticate(e) ==
    LET ones == [i \in 1..(\H50) |->
                    IF i - 1 >= \H04 /\ i - 1 <= \H12 THEN \H31 ELSE 0]
        payload == Put(Put(Put(Put(Put(Put(Put(Put(Put(ones,
                       \H1e, 1), \H2d, 1),
                       \H30, 84), \H31, 101), \H32, 115), \H33, 116),
                       \H34, 32), \H35, 32), \H36, 49)
    IN  sendPacket(e, \H65, payload)

checkData(e) == sendPacket(e, \H6a, CommandPayload(4))

\* sendData(data): Buffer.concat([Buffer.from([0x02, 0, 0, 0]), data])
sendData(e, data) == sendPacket(e, \H6a, <<2, 0, 0, 0>> \o data)

\* The capability test always passing.
HasRF_always(d) == TRUE

\* this.capabilites[DeviceCapabilites.RF]
HasRF(d) == d.capabilites.RF

enterRFSweep(e) ==
    IF ~HasRF(e.d) THEN e ELSE sendPacket(e, \H6a, CommandPayload(\H19))

cancelRFSweep(e) ==
    IF ~HasRF(e.d) THEN e ELSE sendPacket(e, \H6a, CommandPayload(\H1e))

findRFPacket(e) ==
    IF ~HasRF(e.d) THEN e ELSE sendPacket(e, \H6a, CommandPayload(\H1b))

\* The poll of the sweep sending the cancel command.
checkRFSweep_asCancel(e) ==
    IF ~HasRF(e.d) THEN e ELSE sendPacket(e, \H6a, CommandPayload(\H1e))

checkRFSweep(e) ==
    IF ~HasRF(e.d) THEN e ELSE sendPacket(e, \H6a, CommandPayload(\H1a))

-----------------------------------------------------------------------------
(* Promises and timers. *)

Pending == [state |-> "pending", value |-> <<>>]
Resolved(v) == [state |-> "resolved", value |-> v]
Rejected(reason) == [state |-> "rejected", value |-> reason]

\* resolve(...) and reject(...) of a promise: only the first one settles it.
Settle(p, outcome) == IF p.state = "pending" THEN outcome ELSE p

\* setTimeout(callback, ms): kind names the callback, inst the
\* sweepFrequency/confirmFrequency invocation that created it, left the
\* time until it is due.
setTimeout(e, kind, inst, ms) ==
    [e EXCEPT !.d.timers = Append(@, [kind |-> kind, inst |-> inst, left |-> ms])]

\* clearTimeout(timer): without effect when the timer has fired or was
\* cleared before.
clearTimeout(e, kind, inst) ==
    LET Keep(t) == ~(t.kind = kind /\ t.inst = inst)
    IN  [e EXCEPT !.d.timers = SelectSeq(@, Keep)]

SweepTimeoutMs == 30000
SweepCheckMs == 10000
DataTimeoutMs == 10000
CheckDataMs == 5000

-----------------------------------------------------------------------------
(* EventEmitter: emit calls the listeners of the event in registration     *)
(* order, synchronously.                                                   *)

Note(src, ev, val) == [src |-> src, ev |-> ev, val |-> val]

\* The 'sweep' listener without its clearTimeout.
SweepListener_keepsTimer(e, inst, success) ==
    LET e2 == [e EXCEPT !.d.sweepHandler = 0,
                        !.ran = Append(@, [ev |-> "sweep", inst |-> inst])]
    IN  IF ~success
        THEN [e2 EXCEPT !.d.sweeps[inst] =
                  Settle(@, Rejected("The RF sweep was not successful"))]
        ELSE [e2 EXCEPT !.d.sweeps[inst] = Settle(@, Resolved(<<>>))]

\* The 'sweep' listener clearing the handler of confirmFrequency as well.
SweepListener_clearsConfirm(e, inst, success) ==
    LET e1 == clearTimeout(e, "sweepTimeout", inst)
        e2 == [e1 EXCEPT !.d.sweepHandler = 0, !.d.confirmHandler = 0,
                         !.ran = Append(@, [ev |-> "sweep", inst |-> inst])]
    IN  IF ~success
        THEN [e2 EXCEPT !.d.sweeps[inst] =
                  Settle(@, Rejected("The RF sweep was not successful"))]
        ELSE [e2 EXCEPT !.d.sweeps[inst] = Settle(@, Resolved(<<>>))]

\* The listener sweepFrequency invocation inst registered for 'sweep'.
SweepListener(e, inst, success) ==
    LET e1 == clearTimeout(e, "sweepTimeout", inst)
        e2 == [e1 EXCEPT !.d.sweepHandler = 0,
                         !.ran = Append(@, [ev |-> "sweep", inst |-> inst])]
    IN  IF ~success
        THEN [e2 EXCEPT !.d.sweeps[inst] =
                  Settle(@, Rejected("The RF sweep was not successful"))]
        ELSE [e2 EXCEPT !.d.sweeps[inst] = Settle(@, Resolved(<<>>))]

\* The listener confirmFrequency invocation inst registered for 'data'.
DataListener(e, inst, buf) ==
    LET e1 == clearTimeout(e, "dataTimeout", inst)
    IN  [e1 EXCEPT !.d.confirmHandler = 0,
                   !.ran = Append(@, [ev |-> "data", inst |-> inst]),
                   !.d.confirms[inst] = Settle(@, Resolved(buf))]

\* The 'deviceReady' listener of the engine not re-emitting.
ReadyListener_silent(e) == e

\* The listener Broadlink.addDevice registered for 'deviceReady'.
ReadyListener(e) ==
    [e EXCEPT !.notes = Append(@, Note("Broadlink", "deviceReady", ToHex(e.d.mac)))]

RECURSIVE CallListeners(_, _, _, _)
\* The listeners ls of event ev (those registered when emit was called),
\* called with val one after the other.
CallListeners(e, ev, ls, val) ==
    IF ls = <<>> THEN e
    ELSE LET e1 == CASE ev = "sweep" -> SweepListener(e, Head(ls), val)
                     [] ev = "data" -> DataListener(e, Head(ls), val)
                     [] ev = "deviceReady" -> ReadyListener(e)
                     [] OTHER -> e
         IN  CallListeners(e1, ev, Tail(ls), val)

ListenersOf(d, ev) ==
    CASE ev = "sweep" -> d.listeners.sweep
      [] ev = "data" -> d.listeners.data
      [] ev = "deviceReady" -> d.listeners.deviceReady
      [] OTHER -> <<>>

\* this.emit(ev, val) on the session
emit(e, ev, val) ==
    CallListeners([e EXCEPT !.notes = Append(@, Note("device", ev, val))],
                  ev, ListenersOf(e.d, ev), val)

-----------------------------------------------------------------------------
(* sweepFrequency and confirmFrequency. *)

\* The reuse test of sweepFrequency left out.
SweepInFlight_never(d) == FALSE

\* if (this.sweepHandler !== undefined) return this.sweepHandler;
SweepInFlight(d) == d.sweepHandler # 0

sweepFrequency(e) ==
    IF SweepInFlight(e.d) THEN [e EXCEPT !.ret = e.d.sweepHandler]
    ELSE LET inst == Len(e.d.sweeps) + 1
             e1 == [e EXCEPT !.d.sweeps = Append(@, Pending)]
             e2 == setTimeout(e1, "sweepTimeout", inst, SweepTimeoutMs)
             e3 == setTimeout(e2, "checkRFSweep", inst, SweepCheckMs)
             e4 == [e3 EXCEPT !.d.listeners.sweep = Append(@, inst)]
             e5 == enterRFSweep(e4)
         IN  [e5 EXCEPT !.d.sweepHandler = inst, !.ret = inst]

\* if (this.confirmHandler !== undefined) return this.confirmHandler;
ConfirmInFlight(d) == d.confirmHandler # 0

confirmFrequency(e) ==
    IF ConfirmInFlight(e.d) THEN [e EXCEPT !.ret = e.d.confirmHandler]
    ELSE LET inst == Len(e.d.confirms) + 1
             e1 == [e EXCEPT !.d.confirms = Append(@, Pending)]
             e2 == setTimeout(e1, "dataTimeout", inst, DataTimeoutMs)
             e3 == setTimeout(e2, "checkData", inst, CheckDataMs)
             e4 == [e3 EXCEPT !.d.listeners.data = Append(@, inst)]
             e5 == findRFPacket(e4)
         IN  [e5 EXCEPT !.d.confirmHandler = inst, !.ret = inst]

\* The 30 s callback without its cancelRFSweep().
sweepTimeout_noCancel(e, inst) ==
    [e EXCEPT !.d.sweepHandler = 0,
              !.d.sweeps[inst] =
                  Settle(@, Rejected("RF sweep did not return any result"))]

\* The callback of the 30 s timer of sweepFrequency invocation inst.
sweepTimeout(e, inst) ==
    LET e1 == cancelRFSweep(e)
    IN  [e1 EXCEPT !.d.sweepHandler = 0,
                   !.d.sweeps[inst] =
                       Settle(@, Rejected("RF sweep did not return any result"))]

\* The 10 s callback without its reject(...).
dataTimeout_noReject(e, inst) == [e EXCEPT !.d.confirmHandler = 0]

\* The 10 s callback without  this.confirmHandler = undefined.
dataTimeout_keepsHandler(e, inst) ==
    [e EXCEPT !.d.confirms[inst] =
                  Settle(@, Rejected("Did not get RF data from device"))]

\* The callback of the 10 s timer of confirmFrequency invocation inst.
dataTimeout(e, inst) ==
    [e EXCEPT !.d.confirmHandler = 0,
              !.d.confirms[inst] =
                  Settle(@, Rejected("Did not get RF data from device"))]

\* The callback of timer t of the session.
TimerCallback(e, t) ==
    CASE t.kind = "sweepTimeout" -> sweepTimeout(e, t.inst)
      [] t.kind = "checkRFSweep" -> checkRFSweep(e)
      [] t.kind = "dataTimeout"  -> dataTimeout(e, t.inst)
      [] t.kind = "checkData"    -> checkData(e)

-----------------------------------------------------------------------------
(* The receive path: the 'message' callback of listen(), and               *)
(* onPayloadReceived.                                                      *)

\* The data copied from offset 0, the 4-byte header included.
LearnedCode_withHeader(payload) ==
    BufferCopy(payload, Alloc(Len(payload) - 4), 0, 0, Len(payload))

\* let data = Buffer.alloc(payload.length - 4, 0); payload.copy(data, 0, 4);
LearnedCode(payload) ==
    BufferCopy(payload, Alloc(Len(payload) - 4), 0, 4, Len(payload))

\* The sweep result taken as successful for any byte other than zero.
onPayloadReceived_truthy(e, payload) ==
    LET param == At(payload, 0)
    IN  CASE param = 1 ->
               emit(e, "temperature", At(payload, 4) * 10 + At(payload, 5))
          [] param = 4 ->
               emit(e, "data", LearnedCode(payload))
          [] param = 26 ->
               emit(e, "sweep",
                    At(BufferCopy(payload, Alloc(1), 0, 4, Len(payload)), 0) # 0)
          [] param = 27 ->
               emit(e, "rf-data", BufferCopy(payload, Alloc(1), 0, 4, Len(payload)))
          [] OTHER -> e

\* The switch with a default case that reports the parameter id.
onPayloadReceived_default(e, payload) ==
    LET param == At(payload, 0)
    IN  CASE param = 1 ->
               emit(e, "temperature", At(payload, 4) * 10 + At(payload, 5))
          [] param = 4 ->
               emit(e, "data", LearnedCode(payload))
          [] param = 26 ->
               emit(e, "sweep",
                    At(BufferCopy(payload, Alloc(1), 0, 4, Len(payload)), 0) = 1)
          [] param = 27 ->
               emit(e, "rf-data", BufferCopy(payload, Alloc(1), 0, 4, Len(payload)))
          [] OTHER -> emit(e, "unknown", param)

onPayloadReceived(e, payload) ==
    LET param == At(payload, 0)
    IN  CASE param = 1 ->
               \* (payload[4] * 10 + payload[5]) / 10.0, here in tenths
               emit(e, "temperature", At(payload, 4) * 10 + At(payload, 5))
          [] param = 4 ->
               emit(e, "data", LearnedCode(payload))
          [] param = 26 ->
               emit(e, "sweep",
                    At(BufferCopy(payload, Alloc(1), 0, 4, Len(payload)), 0) = 1)
          [] param = 27 ->
               emit(e, "rf-data", BufferCopy(payload, Alloc(1), 0, 4, Len(payload)))
          [] OTHER -> e

\* The key of a handshake reply with two bytes fewer copied.
HandshakeKey_short(payload) == BufferCopy(payload, Alloc(\H10), 0, \H04, \H12)

\* this.key = Buffer.alloc(0x10, 0); payload.copy(this.key, 0, 0x04, 0x14);
HandshakeKey(payload) == BufferCopy(payload, Alloc(\H10), 0, \H04, \H14)

\* The session id copied from where the key begins.
HandshakeId_fromKey(payload) == BufferCopy(payload, Alloc(\H04), 0, \H04, \H08)

\* this.id = Buffer.alloc(0x04, 0); payload.copy(this.id, 0, 0x00, 0x04);
HandshakeId(payload) == BufferCopy(payload, Alloc(\H04), 0, \H00, \H04)

\* The 'message' callback without the return after emit('data-error', err).
onResponse_noReturn(e, response) ==
    LET encryptedPayload ==
            BufferCopy(response, Alloc(Len(response) - \H38), 0, \H38, Len(response))
        err == Word(At(response, \H22), At(response, \H23))
        payload == Decipher(e.d.key, e.d.iv, encryptedPayload)
        command == At(response, \H26)
        e1 == IF err # 0 THEN emit(e, "data-error", err) ELSE e
    IN  IF command = \He9
        THEN emit([e1 EXCEPT !.d.key = HandshakeKey(payload),
                             !.d.id = HandshakeId(payload)],
                  "deviceReady", ToHex(e.d.mac))
        ELSE IF command = \Hee \/ command = \Hef
        THEN onPayloadReceived(e1, payload)
        ELSE e1

onResponse(e, response) ==
    LET encryptedPayload ==
            BufferCopy(response, Alloc(Len(response) - \H38), 0, \H38, Len(response))
        err == Word(At(response, \H22), At(response, \H23))
        payload == Decipher(e.d.key, e.d.iv, encryptedPayload)
        command == At(response, \H26)
    IN  IF err # 0 THEN emit(e, "data-error", err)
        ELSE IF command = \He9
        THEN emit([e EXCEPT !.d.key = HandshakeKey(payload),
                            !.d.id = HandshakeId(payload)],
                  "deviceReady", ToHex(e.d.mac))
        ELSE IF command = \Hee \/ command = \Hef
        THEN onPayloadReceived(e, payload)
        ELSE e

\* An exception raised inside an event callback: nothing catches it, so it
\* reaches the process as an uncaught exception.
Throw(e, error) ==
    [e EXCEPT !.notes = Append(@, Note("process", "uncaughtException", error))]

\* The 'message' callback of listen() for a datagram of any length.
\* Buffer.alloc of a negative size raises a RangeError (lines 321 and 454);
\* decipher.final() with auto padding off raises for a ciphertext that is
\* not a whole number of blocks (line 335); payload.copy with a sourceStart
\* beyond the end of the payload (line 344) raises a RangeError in the
\* Node.js versions that check it (strict) and copies nothing in the others.
listenCallback(e, response, strict) ==
    IF Len(response) < \H38 THEN Throw(e, "RangeError")
    ELSE LET err == Word(At(response, \H22), At(response, \H23))
             command == At(response, \H26)
             length == Len(response) - \H38
         IN  CASE err = 0 /\ length % BlockSize # 0 ->
                    Throw(e, "wrong final block length")
               [] err = 0 /\ length < 4 /\ command \in {\Hee, \Hef} ->
                    Throw(e, "RangeError")
               [] err = 0 /\ length < 4 /\ command = \He9 /\ strict ->
                    Throw(e, "RangeError")
               [] OTHER -> onResponse(e, response)

-----------------------------------------------------------------------------
(* class Broadlink: the discovery engine. *)

\* The packet onListening broadcasts.  now gives the fields of new Date():
\* tz is -getTimezoneOffset() (minutes), so that timezone is tz / 3600.
DiscoveryPacket(ip, port, now) ==
    LET year == now.year - 1900
        tz0  == IF now.tz < 0
                THEN ((254 * 3600 + now.tz) \div 3600) % 256
                ELSE (now.tz \div 3600) % 256
        hi   == IF now.tz < 0 THEN \Hff ELSE 0
        packet ==
            [i \in 1..(\H30) |->
                CASE i - 1 = \H08 -> tz0
                  [] i - 1 = \H09 -> hi
                  [] i - 1 = \H0a -> hi
                  [] i - 1 = \H0b -> hi
                  [] i - 1 = \H0c -> year % 256
                  [] i - 1 = \H0d -> (year \div 256) % 256
                  [] i - 1 = \H0e -> now.minutes
                  [] i - 1 = \H0f -> now.hours
                  [] i - 1 = \H10 -> year % 100
                  [] i - 1 = \H11 -> now.day
                  [] i - 1 = \H12 -> now.date
                  [] i - 1 = \H13 -> now.month
                  [] i - 1 = \H18 -> ip[1]
                  [] i - 1 = \H19 -> ip[2]
                  [] i - 1 = \H1a -> ip[3]
                  [] i - 1 = \H1b -> ip[4]
                  [] i - 1 = \H1c -> port % 256
                  [] i - 1 = \H1d -> (port \div 256) % 256
                  [] i - 1 = \H26 -> 6
                  [] OTHER -> 0]
        checksum == (ChecksumSeed + PlainSum(packet, 1, Len(packet))) % 65536
    IN  Put(Put(packet, \H20, checksum % 256), \H21, checksum \div 256)

\* The ignore branches with the last test disjunctive (absent from either
\* supported table).
IgnoredType_either(deviceType) ==
    \/ deviceType \in unsupportedDeviceTypes
    \/ (deviceType >= \H7530 /\ deviceType <= \H7918)
    \/ (deviceType \notin rmDeviceTypes \/ deviceType \notin rmPlusDeviceTypes)

\* The ignore branches of addDevice.
IgnoredType(deviceType) ==
    \/ deviceType \in unsupportedDeviceTypes
    \/ (deviceType >= \H7530 /\ deviceType <= \H7918)
    \/ (deviceType \notin rmDeviceTypes /\ deviceType \notin rmPlusDeviceTypes)

\* The last test conjunctive: absent from both supported tables.
UnknownType_both(deviceType) ==
    deviceType \notin rmDeviceTypes /\ deviceType \notin rmPlusDeviceTypes

\* The last test of addDevice in src/src/index.ts:
\* rmDeviceTypes[deviceType] == undefined || rmPlusDeviceTypes[deviceType] == undefined
\* (the three tables of that file are those of the other one).
UnknownType(deviceType) ==
    deviceType \notin rmDeviceTypes \/ deviceType \notin rmPlusDeviceTypes

\* addDevice(host, macAddress, deviceType) of src/src/index.ts: the lines
\* it writes to the console.  It returns without a line for a known
\* identity, and it creates no session in any branch: the statements that
\* would are commented out.
addDeviceVariant(devs, macAddress, deviceType) ==
    IF macAddress \in DOMAIN devs THEN <<>>
    ELSE IF deviceType \in unsupportedDeviceTypes
    THEN << Note("console", "log", "Ignoring unsupported device type") >>
    ELSE IF deviceType >= \H7530 /\ deviceType <= \H7918
    THEN << Note("console", "log", "Ignoring unsupported device type") >>
    ELSE IF UnknownType(deviceType)
    THEN << Note("console", "log", "Ignoring unknown device type") >>
    ELSE << Note("console", "log", "Found") >>

\* The registry lookup always missing.
Known_never(devs, mac) == FALSE

\* Whether this.devices holds a session under the hex form of mac.
Known(devs, mac) == ToHex(mac) \in DOMAIN devs

\* addDevice(host, mac, deviceType) on the registry devs: the registry
\* afterwards, and what the new session's authenticate() sent.
addDevice(devs, host, mac, deviceType) ==
    IF Known(devs, mac) \/ IgnoredType(deviceType)
    THEN [devices |-> devs, out |-> <<>>]
    ELSE LET device == BroadlinkDevice(host, mac, deviceType)
             ready  == [device EXCEPT !.listeners.deviceReady = Append(@, "Broadlink")]
             e      == authenticate(Effect(ready))
         IN  [devices |-> (ToHex(mac) :> e.d) @@ devs, out |-> e.out]

\* The identity after the first of the six copies alone.
MacOfMessage_firstCopy(message) ==
    BufferCopy(message, Alloc(6), \H00, \H3D, Len(message))

\* The identity onMessage assembles with its six copies.
MacOfMessage(message) ==
    LET b0 == Alloc(6)
        b1 == BufferCopy(message, b0, \H00, \H3D, Len(message))
        b2 == BufferCopy(message, b1, \H01, \H3E, Len(message))
        b3 == BufferCopy(message, b2, \H02, \H3F, Len(message))
        b4 == BufferCopy(message, b3, \H03, \H3C, Len(message))
        b5 == BufferCopy(message, b4, \H04, \H3B, Len(message))
    IN  BufferCopy(message, b5, \H05, \H3A, Len(message))

onMessage(devs, message, host) ==
    LET macAddressBuffer == MacOfMessage(message)
        deviceType == Word(At(message, \H34), At(message, \H35))
    IN  IF Known(devs, macAddressBuffer)
        THEN [devices |-> devs, out |-> <<>>]
        ELSE addDevice(devs, host, macAddressBuffer, deviceType)

\* buf[off] as an operand of | and <<: undefined counts as 0.
BitsAt(buf, off) == IF off < Len(buf) THEN At(buf, off) ELSE 0

\* Whether onMessage raises for this datagram: message.copy with a
\* sourceStart beyond the end of the message (lines 207-212), in the Node.js
\* versions that check it (strict).
onMessageThrows(message, strict) == strict /\ Len(message) < \H3F

\* The 'message' callback of a discovery socket for a datagram of any
\* length that does not make it raise.
messageCallback(devs, message, host) ==
    IF Len(message) >= \H40 THEN onMessage(devs, message, host)
    ELSE LET macAddressBuffer == MacOfMessage(message)
             deviceType == Word(BitsAt(message, \H34), BitsAt(message, \H35))
         IN  IF Known(devs, macAddressBuffer)
             THEN [devices |-> devs, out |-> <<>>]
             ELSE addDevice(devs, host, macAddressBuffer, deviceType)

-----------------------------------------------------------------------------
(* The inputs the environment supplies. *)

\* Remote hosts (RemoteInfo) a datagram may come from.
Hosts == { [address |-> "192.168.1.20", port |-> 80],
           [address |-> "192.168.1.21", port |-> 80] }

\* Bytes 0x3A..0x3F of a discovery reply.
Tails == { <<1, 2, 3, 4, 5, 6>>, <<6, 5, 4, 3, 2, 1>> }

\* Device types a discovery reply may carry.
HelloTypes == { \H2737, \H272a, \H7600 }

\* A discovery reply of 0x40 bytes with the given type and tail.
HelloMessage(type, tail) ==
    [i \in 1..(\H40) |->
        CASE i - 1 = \H34 -> LoByte(type)
          [] i - 1 = \H35 -> HiByte(type)
          [] i - 1 >= \H3A -> tail[i - \H3A]
          [] OTHER -> 0]

\* The local interfaces getIPAddresses() may report.
InterfaceLists == { << <<192, 168, 1, 2>> >>,
                    << <<192, 168, 1, 2>>, <<10, 0, 0, 2>> >> }

Ports == { 50001 }

Clocks == { [tz |-> 60, year |-> 2024, minutes |-> 30, hours |-> 12,
             day |-> 3, date |-> 17, month |-> 6],
            [tz |-> -300, year |-> 2025, minutes |-> 59, hours |-> 23,
             day |-> 0, date |-> 31, month |-> 11] }

\* A plaintext payload: the parameter id, three zero bytes, the rest,
\* zero-filled to n bytes.
Payload(param, rest, n) ==
    [i \in 1..n |->
        IF i = 1 THEN param
        ELSE IF i >= 5 /\ i - 4 <= Len(rest) THEN rest[i - 4] ELSE 0]

\* The plaintext of a handshake reply: session id, then the key.
HandshakePlain ==
    <<7, 0, 0, 1>> \o [i \in 1..16 |-> 160 + i] \o [i \in 1..12 |-> 0]

\* The plaintext of a handshake reply that carries another id and key.
RehandshakePlain ==
    <<8, 0, 0, 2>> \o [i \in 1..16 |-> 200 + i] \o [i \in 1..12 |-> 0]

\* What a device may answer: error code, command byte, plaintext payload.
Replies ==
    { [err |-> 0, command |-> \Hee, plain |-> Payload(26, <<1>>, 16)],
      [err |-> 0, command |-> \Hee, plain |-> Payload(26, <<0>>, 16)],
      [err |-> 0, command |-> \Hee, plain |-> Payload(4, <<1, 2, 3>>, 16)],
      [err |-> 0, command |-> \Hef, plain |-> Payload(4, <<38, 0, 200, 13, 5>>, 32)],
      [err |-> 0, command |-> \Hee, plain |-> Payload(1, <<21, 5>>, 16)],
      [err |-> 0, command |-> \He9, plain |-> HandshakePlain],
      [err |-> 0, command |-> \He9, plain |-> RehandshakePlain],
      [err |-> \Hfff9, command |-> \Hee, plain |-> Payload(26, <<1>>, 16)] }

\* Replies no branch of the receive path handles: command bytes other than
\* 0xe9, 0xee and 0xef, and data replies with other parameter ids.
OtherReplies ==
    { [err |-> 0, command |-> \H6a, plain |-> Payload(26, <<1>>, 16)],
      [err |-> 0, command |-> 0, plain |-> HandshakePlain],
      [err |-> 0, command |-> \Hee, plain |-> Payload(0, <<1, 2>>, 16)],
      [err |-> 0, command |-> \Hee, plain |-> Payload(2, <<21, 5>>, 16)],
      [err |-> 0, command |-> \Hef, plain |-> Payload(25, <<1>>, 16)],
      [err |-> 0, command |-> \Hef, plain |-> Payload(255, <<1, 2, 3>>, 32)] }

\* A discovery reply of n bytes with the given type at 0x34..0x35 and tail
\* at 0x3A..0x3F, every other byte of it set and not zero.
FilledReply(type, tail, n) ==
    [i \in 1..n |->
        CASE i - 1 = \H34 -> LoByte(type)
          [] i - 1 = \H35 -> HiByte(type)
          [] i - 1 >= \H3A /\ i - 1 <= \H3F -> tail[i - \H3A]
          [] OTHER -> 100 + i]

\* The discovery replies the identity is assembled from: of 0x40 bytes and
\* longer, with tails that agree in all, in some and in none of their bytes.
FilledReplies ==
    { FilledReply(type, tail, n) :
         type \in HelloTypes,
         tail \in Tails \cup { <<1, 2, 3, 4, 5, 9>>, <<9, 2, 3, 4, 5, 6>> },
         n \in { \H40, \H41, \H48 } }

\* More data replies of the four parameter ids: an RF-data byte, a
\* temperature whose second byte is above 9, a sweep result that is neither
\* 0 nor 1, a learned code that fills its two blocks.
DecodedReplies ==
    { [err |-> 0, command |-> \Hee, plain |-> Payload(27, <<7, 8, 9>>, 16)],
      [err |-> 0, command |-> \Hef, plain |-> Payload(1, <<21, 15, 3>>, 16)],
      [err |-> 0, command |-> \Hef, plain |-> Payload(26, <<2, 1>>, 16)],
      [err |-> 0, command |-> \Hee,
       plain |-> Payload(4, [i \in 1..28 |-> 255 - i], 32)] }

\* The replies a session may get while the engine discovers devices.
HandshakeReplies ==
    { r \in Replies : r.command = \He9 \/ r.err # 0 \/ At(r.plain, 0) = 1 }

\* The replies that bear on the RF learning operations.
RfReplies ==
    { r \in Replies : r.command # \He9 /\ (r.err # 0 \/ At(r.plain, 0) \in {4, 26}) }

\* The datagram the device of session d sends for reply r: the header with
\* the error code and the command byte, and the payload encrypted under the
\* key and IV the session and its device share.
DeviceReply(d, r) ==
    [i \in 1..(\H38) |->
        CASE i - 1 = \H22 -> LoByte(r.err)
          [] i - 1 = \H23 -> HiByte(r.err)
          [] i - 1 = \H26 -> r.command
          [] OTHER -> 0]
    \o CipherUpdate(d.key, d.iv, r.plain)

\* buf cut or zero-filled to n bytes.
Resize(buf, n) == [i \in 1..n |-> IF i <= Len(buf) THEN buf[i] ELSE 0]

\* The lengths a datagram may arrive with: a fragment shorter than the
\* header, the header alone, the header and one block, three bytes more.
DatagramLengths == { 16, \H38, \H38 + 16, \H38 + 19 }

\* The replies the datagrams of any length are made from.
DatagramReplies ==
    { r \in Replies : r.plain \in {Payload(26, <<1>>, 16), HandshakePlain} }

\* Learned codes to send: none, and codes of the two greatest lengths that
\* begin with k bytes 0xff, enough of them to carry the checksum past 0xffff.
Codes ==
    { <<>> } \cup
    { [i \in 1..n |-> IF i <= k THEN \Hff ELSE 0] :
         n \in (MaxCode - 1)..MaxCode, k \in 56..(MaxCode - 1) }

-----------------------------------------------------------------------------
(* The state machine. *)

NoInput == [err |-> 0, command |-> 0, plain |-> <<>>]

\* The record of a step: the operation, the session it ran on (by its
\* registry key), its numeric argument (the device type of addDevice), what
\* it returned (for a timer callback: the invocation that set the timer),
\* the sweep/data listeners it called, the datagram it received and the
\* reply the device had put into it.
Step(op, mac, arg, ret, ran, rx, reply) ==
    [op |-> op, mac |-> mac, arg |-> arg, ret |-> ret, ran |-> ran,
     rx |-> rx, reply |-> reply]

Init ==
    /\ devices = <<>>
    /\ sockets = <<>>
    /\ out = <<>>
    /\ notes = <<>>
    /\ last = Step("new", <<>>, 0, 0, <<>>, <<>>, NoInput)
    /\ budget = [calls |-> 0, replies |-> 0]

Called == budget' = [budget EXCEPT !.calls = @ + 1]
Received == budget' = [budget EXCEPT !.replies = @ + 1]

\* discover(): close the sockets, open one per local address.
Discover ==
    /\ budget.calls < MaxCalls
    /\ \E ips \in InterfaceLists :
          sockets' = [i \in 1..Len(ips) |->
                         [ip |-> ips[i], port |-> 0, state |-> "binding"]]
    /\ out' = <<>>
    /\ notes' = <<>>
    /\ last' = Step("discover", <<>>, 0, 0, <<>>, <<>>, NoInput)
    /\ Called
    /\ UNCHANGED devices

\* The 'listening' event of discovery socket i: onListening.
Listening(i) ==
    /\ sockets[i].state = "binding"
    /\ \E port \in Ports, now \in Clocks :
          /\ sockets' = [sockets EXCEPT ![i].state = "listening", ![i].port = port]
          /\ out' = << [to   |-> [address |-> "255.255.255.255", port |-> 80],
                        data |-> DiscoveryPacket(sockets[i].ip, port, now)] >>
    /\ notes' = <<>>
    /\ last' = Step("onListening", <<>>, 0, 0, <<>>, <<>>, NoInput)
    /\ UNCHANGED <<devices, budget>>

\* A 'message' event of a discovery socket: onMessage.
Message(type, tail, host) ==
    /\ budget.replies < MaxReplies
    /\ \E i \in 1..Len(sockets) : sockets[i].state = "listening"
    /\ LET message == HelloMessage(type, tail)
           r == onMessage(devices, message, host)
       IN  /\ devices' = r.devices
           /\ out' = r.out
           /\ last' = Step("onMessage", ToHex(MacOfMessage(message)), 0, 0, <<>>,
                           message, NoInput)
    /\ notes' = <<>>
    /\ Received
    /\ UNCHANGED sockets

\* A 'message' event of a discovery socket with one of the filled replies.
DiscoveryReply(message, host) ==
    /\ budget.replies < MaxReplies
    /\ \E i \in 1..Len(sockets) : sockets[i].state = "listening"
    /\ LET r == onMessage(devices, message, host)
       IN  /\ devices' = r.devices
           /\ out' = r.out
    /\ last' = Step("onMessage", ToHex(MacOfMessage(message)), 0, 0, <<>>,
                    message, NoInput)
    /\ notes' = <<>>
    /\ Received
    /\ UNCHANGED sockets

\* addDevice(host, mac, deviceType), which is public, called directly.
AddDevice(host, mac, deviceType) ==
    /\ LET r == addDevice(devices, host, mac, deviceType)
       IN  /\ devices' = r.devices
           /\ out' = r.out
    /\ notes' = <<>>
    /\ last' = Step("addDevice", ToHex(mac), deviceType, 0, <<>>, <<>>, NoInput)
    /\ UNCHANGED <<sockets, budget>>

\* addDevice(host, macAddress, deviceType) of src/src/index.ts.
AddDeviceVariant(macAddress, deviceType) ==
    /\ notes' = addDeviceVariant(devices, macAddress, deviceType)
    /\ out' = <<>>
    /\ last' = Step("addDeviceVariant", macAddress, deviceType, 0, <<>>, <<>>, NoInput)
    /\ UNCHANGED <<devices, sockets, budget>>

\* The engine creates a session (addDevice, lines 249-259) whose
\* constructor draws Math.random() = k / RandomSteps.
NewSession(host, mac, type, k) ==
    /\ ~Known(devices, mac)
    /\ LET device == [BroadlinkDevice(host, mac, type) EXCEPT !.count = MathRandomAnd(k)]
           ready  == [device EXCEPT !.listeners.deviceReady = Append(@, "Broadlink")]
           e      == authenticate(Effect(ready))
       IN  /\ devices' = (ToHex(mac) :> e.d) @@ devices
           /\ out' = e.out
    /\ notes' = <<>>
    /\ last' = Step("newSession", ToHex(mac), k, 0, <<>>, <<>>, NoInput)
    /\ UNCHANGED <<sockets, budget>>

\* The state after handler e of session m has run as operation op.
Commit(m, e, op, rx, reply) ==
    /\ devices' = [devices EXCEPT ![m] = e.d]
    /\ out' = e.out
    /\ notes' = e.notes
    /\ last' = Step(op, m, 0, e.ret, e.ran, rx, reply)
    /\ UNCHANGED sockets

Begin(m) == Effect(devices[m])

SweepFrequency(m) ==
    /\ budget.calls < MaxCalls
    /\ Commit(m, sweepFrequency(Begin(m)), "sweepFrequency", <<>>, NoInput)
    /\ Called

ConfirmFrequency(m) ==
    /\ budget.calls < MaxCalls
    /\ Commit(m, confirmFrequency(Begin(m)), "confirmFrequency", <<>>, NoInput)
    /\ Called

EnterRFSweep(m) ==
    /\ budget.calls < MaxCalls
    /\ Commit(m, enterRFSweep(Begin(m)), "enterRFSweep", <<>>, NoInput)
    /\ Called

CheckRFSweep(m) ==
    /\ budget.calls < MaxCalls
    /\ Commit(m, checkRFSweep(Begin(m)), "checkRFSweep", <<>>, NoInput)
    /\ Called

FindRFPacket(m) ==
    /\ budget.calls < MaxCalls
    /\ Commit(m, findRFPacket(Begin(m)), "findRFPacket", <<>>, NoInput)
    /\ Called

CancelRFSweep(m) ==
    /\ budget.calls < MaxCalls
    /\ Commit(m, cancelRFSweep(Begin(m)), "cancelRFSweep", <<>>, NoInput)
    /\ Called

\* checkData() of session m, one of a long run of sends.
CheckData(m) ==
    /\ budget.calls < MaxSends
    /\ Commit(m, checkData(Begin(m)), "checkData", <<>>, NoInput)
    /\ Called

\* authenticate() of session m, called again by the application.
Authenticate(m) ==
    /\ budget.calls < MaxCalls
    /\ Commit(m, authenticate(Begin(m)), "authenticate", <<>>, NoInput)
    /\ Called

\* sendData(data) of session m.
SendData(m, data) ==
    /\ budget.calls < MaxCalls
    /\ Commit(m, sendData(Begin(m), data), "sendData", data, NoInput)
    /\ Called

\* A 'message' event of the socket of session m.
Response(m, r) ==
    /\ budget.replies < MaxReplies
    /\ LET response == DeviceReply(devices[m], r)
       IN  Commit(m, onResponse(Begin(m), response), "onResponse", response, r)
    /\ Received

\* A 'message' event of the socket of session m with a datagram of any
\* length.
Datagram(m, r, n, strict) ==
    /\ budget.replies < MaxReplies
    /\ LET response == Resize(DeviceReply(devices[m], r), n)
       IN  Commit(m, listenCallback(Begin(m), response, strict), "listen", response, r)
    /\ Received

\* A 'message' event of a discovery socket with a datagram of any length.
Hello(type, n, host, strict) ==
    /\ budget.replies < MaxReplies
    /\ \E i \in 1..Len(sockets) : sockets[i].state = "listening"
    /\ LET message == Resize(HelloMessage(type, <<6, 5, 4, 3, 2, 1>>), n)
           r == messageCallback(devices, message, host)
       IN  IF onMessageThrows(message, strict)
           THEN /\ devices' = devices
                /\ out' = <<>>
                /\ notes' = << Note("process", "uncaughtException", "RangeError") >>
                /\ last' = Step("onMessage", <<>>, 0, 0, <<>>, message, NoInput)
           ELSE /\ devices' = r.devices
                /\ out' = r.out
                /\ notes' = <<>>
                /\ last' = Step("onMessage", <<>>, 0, 0, <<>>, message, NoInput)
    /\ Received
    /\ UNCHANGED sockets

\* Timer i of session m is due and its callback runs.
TimerFires(m, i) ==
    /\ i \in 1..Len(devices[m].timers)
    /\ devices[m].timers[i].left = 0
    /\ LET t == devices[m].timers[i]
           e == [Begin(m) EXCEPT !.d.timers =
                    [k \in 1..(Len(@) - 1) |-> IF k < i THEN @[k] ELSE @[k + 1]]]
       IN  Commit(m, [TimerCallback(e, t) EXCEPT !.ret = t.inst], t.kind, <<>>, NoInput)
    /\ UNCHANGED budget

PendingTimers ==
    UNION { { devices[m].timers[i] : i \in 1..Len(devices[m].timers) } :
            m \in DOMAIN devices }

\* Time passes until the next timer is due; no time passes while a timer
\* is due.
Advance ==
    /\ PendingTimers # {}
    /\ \A t \in PendingTimers : t.left > 0
    /\ LET step == CHOOSE s \in { t.left : t \in PendingTimers } :
                      \A t \in PendingTimers : s <= t.left
       IN  devices' = [m \in DOMAIN devices |->
                          [devices[m] EXCEPT !.timers =
                              [k \in 1..Len(@) |-> [@[k] EXCEPT !.left = @ - step]]]]
    /\ out' = <<>>
    /\ notes' = <<>>
    /\ last' = Step("advance", <<>>, 0, 0, <<>>, <<>>, NoInput)
    /\ UNCHANGED <<sockets, budget>>

\* The RF learning operations of a session, its replies and its timers.
Next ==
    \/ \E m \in DOMAIN devices : SweepFrequency(m)
    \/ \E m \in DOMAIN devices : ConfirmFrequency(m)
    \/ \E m \in DOMAIN devices, r \in RfReplies : Response(m, r)
    \/ \E m \in DOMAIN devices : \E i \in 1..Len(devices[m].timers) : TimerFires(m, i)
    \/ Advance

\* The types of the session the RF operations are explored on.
SessionTypes == { \H2737, \H272a }

\* One session, accepted from a discovery reply.
InitSession ==
    \E type \in SessionTypes :
       LET host == CHOOSE h \in Hosts : h.address = "192.168.1.20"
           message == HelloMessage(type, <<1, 2, 3, 4, 5, 6>>)
           r == onMessage(<<>>, message, host)
       IN  /\ devices = r.devices
           /\ sockets = << [ip |-> <<192, 168, 1, 2>>, port |-> 40000,
                            state |-> "listening"] >>
           /\ out = r.out
           /\ notes = <<>>
           /\ last = Step("onMessage", ToHex(MacOfMessage(message)), 0, 0, <<>>,
                          message, NoInput)
           /\ budget = [calls |-> 0, replies |-> 0]

Spec == InitSession /\ [][Next]_vars

\* The registry key of the session of InitSession.
SessionMac == ToHex(MacOfMessage(HelloMessage(\H2737, <<1, 2, 3, 4, 5, 6>>)))

\* The step, as its record shows it, in which the callback of timer i of
\* session m runs while that timer is due: among the steps of Next these
\* are the steps TimerFires(m, i), and it is enabled when TimerFires(m, i)
\* is.
TimerRuns(m, i) ==
    /\ i \in 1..Len(devices[m].timers)
    /\ devices[m].timers[i].left = 0
    /\ last' = Step(devices[m].timers[i].kind, m, 0, devices[m].timers[i].inst,
                    <<>>, <<>>, NoInput)

\* The event loop runs the callback of a timer that is due, and time
\* passes while timers are pending.
TimersFire ==
    /\ WF_vars(Advance)
    /\ \A i \in 1..(2 * MaxCalls) : WF_last(TimerRuns(SessionMac, i))

SpecLive == Spec /\ TimersFire

\* The RF commands of the dispatcher called directly on a session.
NextCommands ==
    \/ \E m \in DOMAIN devices : EnterRFSweep(m)
    \/ \E m \in DOMAIN devices : CheckRFSweep(m)
    \/ \E m \in DOMAIN devices : FindRFPacket(m)
    \/ \E m \in DOMAIN devices : CancelRFSweep(m)
    \/ \E m \in DOMAIN devices : Authenticate(m)
    \/ \E m \in DOMAIN devices, r \in Replies : Response(m, r)

SpecCommands == InitSession /\ [][NextCommands]_vars

\* A session with RF learning operations in flight that gets replies of
\* every kind, those no branch handles among them.
NextReplies ==
    \/ \E m \in DOMAIN devices : SweepFrequency(m)
    \/ \E m \in DOMAIN devices : ConfirmFrequency(m)
    \/ \E m \in DOMAIN devices, r \in Replies \cup OtherReplies \cup DecodedReplies :
          Response(m, r)

SpecReplies == InitSession /\ [][NextReplies]_vars

\* Discovery: discover(), the sockets' events, the handshake replies.
NextDiscovery ==
    \/ Discover
    \/ \E i \in 1..Len(sockets) : Listening(i)
    \/ \E type \in HelloTypes, tail \in Tails, host \in Hosts : Message(type, tail, host)

SpecDiscovery == Init /\ [][NextDiscovery]_vars

\* Classification: addDevice on an empty registry, once, for each of the
\* 16-bit device types (the type is drawn by the initial state).
InitClassify ==
    /\ devices = <<>>
    /\ sockets = <<>>
    /\ out = <<>>
    /\ notes = <<>>
    /\ \E deviceType \in 0..65535 :
          last = Step("new", <<>>, deviceType, 0, <<>>, <<>>, NoInput)
    /\ budget = [calls |-> 0, replies |-> 0]

NextClassify ==
    /\ last.op = "new"
    /\ \E host \in Hosts : AddDevice(host, <<4, 5, 6, 3, 2, 1>>, last.arg)

SpecClassify == InitClassify /\ [][NextClassify]_vars

\* Classification by the addDevice of src/src/index.ts, once, for each of
\* the 16-bit device types.
NextClassifyVariant ==
    /\ last.op = "new"
    /\ AddDeviceVariant(ToHex(<<4, 5, 6, 3, 2, 1>>), last.arg)

SpecClassifyVariant == InitClassify /\ [][NextClassifyVariant]_vars

\* The random numbers the sessions are created with: sixteen steps across
\* [0, 1), each with the value just below the next step.
SampleDraws ==
    { s * (RandomSteps \div 16) + j : s \in 0..15, j \in {0, (RandomSteps \div 16) - 1} }

\* The creation of a session, for each of the random numbers (the number
\* is drawn by the initial state).
InitSessions ==
    /\ devices = <<>>
    /\ sockets = << [ip |-> <<192, 168, 1, 2>>, port |-> 40000, state |-> "listening"] >>
    /\ out = <<>>
    /\ notes = <<>>
    /\ \E k \in SampleDraws : last = Step("new", <<>>, k, 0, <<>>, <<>>, NoInput)
    /\ budget = [calls |-> 0, replies |-> 0]

NextSessions ==
    /\ last.op = "new"
    /\ \E host \in Hosts, tail \in Tails, type \in SessionTypes :
          NewSession(host, tail, type, last.arg)

SpecSessions == InitSessions /\ [][NextSessions]_vars

\* The datagrams delivered to the sockets of a session and of the engine.
NextDatagrams ==
    \/ \E m \in DOMAIN devices, r \in DatagramReplies, n \in DatagramLengths :
          \E strict \in BOOLEAN : Datagram(m, r, n, strict)
    \/ \E type \in HelloTypes, n \in {16, \H40}, host \in Hosts :
          \E strict \in BOOLEAN : Hello(type, n, host, strict)

SpecDatagrams == InitSession /\ [][NextDatagrams]_vars

\* Discovery replies and the replies of the sessions they create.
InitHandshake ==
    /\ devices = <<>>
    /\ sockets = << [ip |-> <<192, 168, 1, 2>>, port |-> 40000, state |-> "listening"] >>
    /\ out = <<>>
    /\ notes = <<>>
    /\ last = Step("new", <<>>, 0, 0, <<>>, <<>>, NoInput)
    /\ budget = [calls |-> 0, replies |-> 0]

NextHandshake ==
    \/ \E type \in HelloTypes, tail \in Tails, host \in Hosts : Message(type, tail, host)
    \/ \E m \in DOMAIN devices, r \in HandshakeReplies : Response(m, r)

SpecHandshake == InitHandshake /\ [][NextHandshake]_vars

\* The discovery replies of every length and content an engine gets.
NextIdentity == \E message \in FilledReplies, host \in Hosts : DiscoveryReply(message, host)

SpecIdentity == InitHandshake /\ [][NextIdentity]_vars

\* The packets built: by a session that sends learned codes, and by a
\* discovery socket when it starts to listen.
InitPackets ==
    LET host == CHOOSE h \in Hosts : h.address = "192.168.1.20"
        message == HelloMessage(\H2737, <<1, 2, 3, 4, 5, 6>>)
        r == onMessage(<<>>, message, host)
    IN  /\ devices = r.devices
        /\ sockets = << [ip |-> <<192, 168, 1, 2>>, port |-> 0, state |-> "binding"] >>
        /\ out = r.out
        /\ notes = <<>>
        /\ last = Step("onMessage", ToHex(MacOfMessage(message)), 0, 0, <<>>,
                       message, NoInput)
        /\ budget = [calls |-> 0, replies |-> 0]

NextPackets ==
    \/ \E m \in DOMAIN devices, data \in Codes : SendData(m, data)
    \/ \E i \in 1..Len(sockets) : Listening(i)
    \/ \E m \in DOMAIN devices, r \in { x \in Replies : x.command = \He9 } :
          Response(m, r)

SpecPackets == InitPackets /\ [][NextPackets]_vars

\* One RF session, accepted from a discovery reply (its handshake request
\* was the first packet it sent), that sends command after command.
InitSend ==
    LET host == CHOOSE h \in Hosts : h.address = "192.168.1.20"
        message == HelloMessage(\H272a, <<1, 2, 3, 4, 5, 6>>)
        r == onMessage(<<>>, message, host)
    IN  /\ devices = r.devices
        /\ sockets = << [ip |-> <<192, 168, 1, 2>>, port |-> 40000,
                         state |-> "listening"] >>
        /\ out = r.out
        /\ notes = <<>>
        /\ last = Step("onMessage", ToHex(MacOfMessage(message)), 0, 0, <<>>,
                       message, NoInput)
        /\ budget = [calls |-> 0, replies |-> 0]

NextSend == \E m \in DOMAIN devices : CheckData(m)

SpecSend == InitSend /\ [][NextSend]_vars

-----------------------------------------------------------------------------
(* Properties of the discovery engine. *)

\* C1: the registry holds at most one session per identity: every session
\* is registered under the hex form of its own identity, and a discovery
\* reply whose identity is already registered creates no session, sends no
\* handshake packet and leaves the registry and its sessions as they were.
C1_OneSessionPerIdentity ==
    [][ /\ \A k \in DOMAIN devices' : ToHex(devices'[k].mac) = k
        /\ (last'.op = "onMessage" /\ last'.mac \in DOMAIN devices)
              => (devices' = devices /\ out' = <<>>) ]_vars

\* C1 witness: a second reply carried the identity of a registered session
\* and another supported device type; the one session kept its type.
C1_Witness ==
    /\ last.op = "onMessage"
    /\ budget.replies = 2
    /\ DOMAIN devices = {last.mac}
    /\ out = <<>>
    /\ LET type == Word(At(last.rx, \H34), At(last.rx, \H35))
       IN  /\ type \in rmDeviceTypes \cup rmPlusDeviceTypes
           /\ devices[last.mac].type # type

\* C2: addDevice classifies a device type: in the unsupported table or in
\* [0x7530, 0x7918], no session; in the non-RF table, a session without RF
\* capability; in the RF table, a session with RF capability; in no table,
\* no session.  0x2737 gives a non-RF session, 0x272a an RF session, and
\* 0x7600, 0 and 0xFFFF give none.
C2_Classification ==
    last.op = "addDevice" =>
        LET t == last.arg
            none == DOMAIN devices = {}
            session(rf) == /\ DOMAIN devices = {last.mac}
                           /\ devices[last.mac].type = t
                           /\ devices[last.mac].capabilites.RF = rf
        IN  /\ (t \in unsupportedDeviceTypes \/ (t >= \H7530 /\ t <= \H7918)) => none
            /\ t \in rmDeviceTypes => session(FALSE)
            /\ t \in rmPlusDeviceTypes => session(TRUE)
            /\ t \notin (unsupportedDeviceTypes \cup rmDeviceTypes \cup rmPlusDeviceTypes)
                  => none
            /\ t = \H2737 => session(FALSE)
            /\ t = \H272a => session(TRUE)
            /\ t \in {\H7600, 0, \Hffff} => none

\* C2 witness: addDevice accepted type 0x272a as an RF-capable session.
C2_Witness ==
    /\ last.op = "addDevice"
    /\ last.arg = \H272a
    /\ DOMAIN devices = {last.mac}
    /\ devices[last.mac].capabilites.RF

-----------------------------------------------------------------------------
(* Properties of the RF learning operations. *)

\* Whether the session has a pending timer of this kind set by invocation inst.
HasTimer(d, kind, inst) ==
    \E k \in 1..Len(d.timers) : d.timers[k].kind = kind /\ d.timers[k].inst = inst

\* The unsettled promises of a list of promises.
Unsettled(ps) == { i \in 1..Len(ps) : ps[i].state = "pending" }

\* A data reply the session accepts (error code zero, command 0xee or 0xef)
\* whose parameter id is param.
IsDataReply(r, param) ==
    /\ r.err = 0
    /\ r.command \in {\Hee, \Hef}
    /\ Len(r.plain) >= 5
    /\ r.plain[1] = param

\* The plaintext of a 16-byte command with operation code op.
CommandPlain(op) == [k \in 1..16 |-> IF k = 1 THEN op ELSE 0]

\* Datagram p of session d is a command packet (outer command 0x6a) whose
\* payload decrypts to the 16-byte command with operation code op.
IsCommandPacket(d, p, op) ==
    /\ p.to = d.host
    /\ Len(p.data) = \H38 + 16
    /\ At(p.data, \H26) = \H6a
    /\ Decipher(d.key, d.iv, SubSeq(p.data, \H38 + 1, Len(p.data))) = CommandPlain(op)

\* C3: per session at most one sweepFrequency and at most one
\* confirmFrequency invocation is unsettled; an invocation made while one is
\* unsettled returns that same promise, sends nothing and changes nothing
\* (no timers); a new promise is created only when none is unsettled.
C3_SingleInFlight ==
    [][ \A m \in DOMAIN devices :
          LET d  == devices[m]
              dn == devices'[m]
              called(op) == last'.op = op /\ last'.mac = m
          IN  /\ Cardinality(Unsettled(dn.sweeps)) <= 1
              /\ Cardinality(Unsettled(dn.confirms)) <= 1
              /\ (called("sweepFrequency") /\ Unsettled(d.sweeps) # {})
                    => (last'.ret \in Unsettled(d.sweeps) /\ out' = <<>> /\ dn = d)
              /\ (called("confirmFrequency") /\ Unsettled(d.confirms) # {})
                    => (last'.ret \in Unsettled(d.confirms) /\ out' = <<>> /\ dn = d)
              /\ Len(dn.sweeps) > Len(d.sweeps)
                    => (called("sweepFrequency") /\ Unsettled(d.sweeps) = {})
              /\ Len(dn.confirms) > Len(d.confirms)
                    => (called("confirmFrequency") /\ Unsettled(d.confirms) = {}) ]_vars

\* C3 witness: sweepFrequency was called on an RF session while its sweep
\* was unsettled: it returned the pending promise and sent nothing.
C3_Witness ==
    /\ last.op = "sweepFrequency"
    /\ HasRF(devices[last.mac])
    /\ out = <<>>
    /\ Unsettled(devices[last.mac].sweeps) = {last.ret}

\* C4: a 'sweep' notification that arrives while a sweepFrequency
\* invocation is unsettled resolves it when it reports success and rejects
\* it as unsuccessful otherwise; its 30 s timer was still pending and is
\* cancelled, nothing is sent, and the timeout callback (which sends the
\* cancel command) never runs for a settled invocation.
C4_SweepNotification ==
    [][ /\ \A m \in DOMAIN devices :
             LET d  == devices[m]
                 dn == devices'[m]
             IN  \A i \in Unsettled(d.sweeps) :
                    (last'.op = "onResponse" /\ last'.mac = m
                        /\ IsDataReply(last'.reply, 26))
                    => /\ dn.sweeps[i] =
                            IF last'.reply.plain[5] = 1
                            THEN Resolved(<<>>)
                            ELSE Rejected("The RF sweep was not successful")
                       /\ HasTimer(d, "sweepTimeout", i)
                       /\ ~HasTimer(dn, "sweepTimeout", i)
                       /\ dn.sweepHandler = 0
                       /\ out' = <<>>
        /\ last'.op = "sweepTimeout"
              => last'.ret \in Unsettled(devices[last'.mac].sweeps) ]_vars

\* C4 witness: the first reply of an RF session was a sweep notification
\* reporting failure, and it rejected the pending sweep.
C4_Witness ==
    /\ last.op = "onResponse"
    /\ budget.replies = 1
    /\ IsDataReply(last.reply, 26)
    /\ last.reply.plain[5] # 1
    /\ HasRF(devices[last.mac])
    /\ devices[last.mac].sweeps = <<Rejected("The RF sweep was not successful")>>

\* C5: on an RF session the 30 s timer of a sweepFrequency invocation, when
\* it fires, sends the cancel command (0x1e under 0x6a), rejects the
\* invocation with the timeout reason and leaves no sweep in flight; the
\* timer is set for 30 s at the invocation and runs 20 s behind the 10 s
\* poll timer, which has fired before it.
C5_SweepTimeout ==
    [][ /\ (last'.op = "sweepTimeout" /\ HasRF(devices[last'.mac]))
              => LET d  == devices[last'.mac]
                     dn == devices'[last'.mac]
                     i  == last'.ret
                 IN  /\ Len(out') = 1
                     /\ IsCommandPacket(d, out'[1], \H1e)
                     /\ i \in Unsettled(d.sweeps)
                     /\ dn.sweeps[i] = Rejected("RF sweep did not return any result")
                     /\ dn.sweepHandler = 0
                     /\ Unsettled(dn.sweeps) = {}
                     /\ ~HasTimer(d, "checkRFSweep", i)
        /\ \A m \in DOMAIN devices :
              LET dn == devices'[m]
              IN  /\ Len(dn.sweeps) > Len(devices[m].sweeps)
                        => \E k \in 1..Len(dn.timers) :
                              dn.timers[k] = [kind |-> "sweepTimeout",
                                              inst |-> Len(dn.sweeps), left |-> 30000]
                  /\ \A k1, k2 \in 1..Len(dn.timers) :
                        (/\ dn.timers[k1].kind = "sweepTimeout"
                         /\ dn.timers[k2].kind = "checkRFSweep"
                         /\ dn.timers[k1].inst = dn.timers[k2].inst)
                        => dn.timers[k1].left - dn.timers[k2].left = 20000 ]_vars

\* C5 witness: the 30 s timer of the first sweep of an RF session fired
\* with no reply received: the cancel command went out and the sweep is
\* rejected for the timeout.
C5_Witness ==
    /\ last.op = "sweepTimeout"
    /\ budget.replies = 0
    /\ HasRF(devices[last.mac])
    /\ Len(out) = 1
    /\ devices[last.mac].sweeps = <<Rejected("RF sweep did not return any result")>>
    /\ devices[last.mac].sweepHandler = 0

\* C6: a 'data' notification that arrives while a confirmFrequency
\* invocation is unsettled resolves it with the bytes of the device's
\* payload after its 4-byte header, all of them and unchanged; the 10 s
\* timer was still pending and is cancelled.
C6_ConfirmData ==
    [][ \A m \in DOMAIN devices :
          LET d  == devices[m]
              dn == devices'[m]
          IN  \A i \in Unsettled(d.confirms) :
                 (last'.op = "onResponse" /\ last'.mac = m
                     /\ IsDataReply(last'.reply, 4))
                 => /\ dn.confirms[i] =
                         Resolved(SubSeq(last'.reply.plain, 5, Len(last'.reply.plain)))
                    /\ HasTimer(d, "dataTimeout", i)
                    /\ ~HasTimer(dn, "dataTimeout", i)
                    /\ dn.confirmHandler = 0 ]_vars

\* C6 witness: the first reply was a data notification carrying 1, 2, 3
\* and it resolved the pending confirm with the twelve bytes 1, 2, 3, 0...
C6_Witness ==
    /\ last.op = "onResponse"
    /\ budget.replies = 1
    /\ IsDataReply(last.reply, 4)
    /\ devices[last.mac].confirms =
          <<Resolved(<<1, 2, 3, 0, 0, 0, 0, 0, 0, 0, 0, 0>>)>>
    /\ last.ran = <<[ev |-> "data", inst |-> 1]>>

\* C7: the 10 s timer of a confirmFrequency invocation, when it fires,
\* rejects the invocation with the timeout reason and leaves no confirm in
\* flight, so that the next confirmFrequency() creates a new promise with a
\* new 10 s timer (and, on an RF session, sends find-RF-packet); the timer
\* runs 5 s behind the 5 s poll timer, which has fired before it.
C7_ConfirmTimeout ==
    [][ /\ last'.op = "dataTimeout"
              => LET d  == devices[last'.mac]
                     dn == devices'[last'.mac]
                     i  == last'.ret
                 IN  /\ i \in Unsettled(d.confirms)
                     /\ dn.confirms[i] = Rejected("Did not get RF data from device")
                     /\ dn.confirmHandler = 0
                     /\ Unsettled(dn.confirms) = {}
                     /\ ~HasTimer(d, "checkData", i)
        /\ \A m \in DOMAIN devices :
              LET d  == devices[m]
                  dn == devices'[m]
                  n  == Len(d.confirms)
              IN  /\ (/\ last'.op = "confirmFrequency" /\ last'.mac = m
                      /\ n > 0
                      /\ d.confirms[n] = Rejected("Did not get RF data from device"))
                     => /\ Len(dn.confirms) = n + 1
                        /\ last'.ret = n + 1
                        /\ Unsettled(dn.confirms) = {n + 1}
                        /\ dn.confirmHandler = n + 1
                        /\ \E k \in 1..Len(dn.timers) :
                              dn.timers[k] = [kind |-> "dataTimeout",
                                              inst |-> n + 1, left |-> 10000]
                        /\ HasRF(d) => (Len(out') = 1 /\ IsCommandPacket(dn, out'[1], \H1b))
                  /\ \A k1, k2 \in 1..Len(dn.timers) :
                        (/\ dn.timers[k1].kind = "dataTimeout"
                         /\ dn.timers[k2].kind = "checkData"
                         /\ dn.timers[k1].inst = dn.timers[k2].inst)
                        => dn.timers[k1].left - dn.timers[k2].left = 5000 ]_vars

\* C7 witness: the first confirm timed out and a second confirmFrequency()
\* started a new one.
C7_Witness ==
    /\ last.op = "confirmFrequency"
    /\ last.ret = 2
    /\ devices[last.mac].confirms =
          <<Rejected("Did not get RF data from device"), Pending>>
    /\ devices[last.mac].confirmHandler = 2

\* C8: every sweepFrequency and confirmFrequency invocation is settled
\* once, by the notification or the timeout, whichever comes first, and the
\* first cancels the other: a settled promise never changes, the timeout
\* callback never runs for a settled invocation, and an invocation settled
\* by its timeout no longer handles a later notification.
C8_FirstSettlesAndCancels ==
    [][ /\ \A m \in DOMAIN devices :
             LET d  == devices[m]
                 dn == devices'[m]
             IN  /\ \A i \in 1..Len(d.sweeps) :
                       d.sweeps[i].state # "pending" => dn.sweeps[i] = d.sweeps[i]
                 /\ \A i \in 1..Len(d.confirms) :
                       d.confirms[i].state # "pending" => dn.confirms[i] = d.confirms[i]
        /\ last'.op = "sweepTimeout"
              => last'.ret \in Unsettled(devices[last'.mac].sweeps)
        /\ last'.op = "dataTimeout"
              => last'.ret \in Unsettled(devices[last'.mac].confirms)
        /\ last'.op = "onResponse"
              => \A k \in 1..Len(last'.ran) :
                    LET d == devices[last'.mac]
                        i == last'.ran[k].inst
                    IN  /\ last'.ran[k].ev = "sweep"
                           => d.sweeps[i] # Rejected("RF sweep did not return any result")
                        /\ last'.ran[k].ev = "data"
                           => d.confirms[i] # Rejected("Did not get RF data from device")
      ]_vars

\* C9: on a session without RF capability enterRFSweep, checkRFSweep,
\* findRFPacket and cancelRFSweep send nothing and leave the sequence
\* counter, the key, the IV and the session id as they were.
C9_RfCommandsRefused ==
    [][ (/\ last'.op \in {"enterRFSweep", "checkRFSweep", "findRFPacket", "cancelRFSweep"}
         /\ ~devices[last'.mac].capabilites.RF)
        => LET d  == devices[last'.mac]
               dn == devices'[last'.mac]
           IN  /\ out' = <<>>
               /\ dn.count = d.count
               /\ dn.key = d.key
               /\ dn.iv = d.iv
               /\ dn.id = d.id ]_vars

\* C9 witness: cancelRFSweep was called on a non-RF session that had
\* completed its handshake; nothing was sent.
C9_Witness ==
    /\ last.op = "cancelRFSweep"
    /\ devices[last.mac].type \in rmDeviceTypes
    /\ devices[last.mac].key # PresharedKey
    /\ out = <<>>

\* C10: on a session without RF capability no step of sweepFrequency or
\* confirmFrequency (the invocation, its timers, the replies that settle it)
\* sends a packet.
C10_NoTrafficWithoutRF ==
    [][ \A m \in DOMAIN devices' :
           (last'.mac = m /\ ~devices'[m].capabilites.RF) => out' = <<>> ]_vars

-----------------------------------------------------------------------------
(* Properties of the send and receive paths. *)

\* C11: every send increments the session's sequence counter by one modulo
\* 65536 before the packet is built: the packet carries the incremented
\* value little-endian at 0x28..0x29, the counter stays in 0..65535, and
\* after n sends it is the starting value plus n modulo 65536, so that after
\* 65536 sends it is the starting value again.
C11_SequenceCounter ==
    [][ \A m \in DOMAIN devices :
          LET d  == devices[m]
              dn == devices'[m]
          IN  /\ dn.count \in 0..65535
              /\ Len(out') = 1
              /\ dn.count = (d.count + 1) % 65536
              /\ At(out'[1].data, \H28) = dn.count % 256
              /\ At(out'[1].data, \H29) = dn.count \div 256
              /\ Word(At(out[1].data, \H28), At(out[1].data, \H29)) = d.count
              /\ budget'.calls = 65536 => dn.count = 1 ]_vars

\* C11 witness: the send that wraps the counter from 65535 to 0.
C11_Witness ==
    /\ last.op = "checkData"
    /\ devices[last.mac].count = 0
    /\ Len(out) = 1
    /\ At(out[1].data, \H28) = 0
    /\ At(out[1].data, \H29) = 0
    /\ budget.calls = 65535

\* The step taken is the processing of a handshake reply by session m.
IsHandshakeStep(m) ==
    /\ last'.op = "onResponse"
    /\ last'.mac = m
    /\ last'.reply.err = 0
    /\ last'.reply.command = \He9

C13_KeyAndIdPermanent ==
    [][ \A m \in DOMAIN devices :
           devices[m].key # PresharedKey
           => /\ devices'[m].key = devices[m].key
              /\ devices'[m].id = devices[m].id ]_vars

\* C14: a reply whose error code is not zero emits 'data-error' with that
\* code and nothing else: no other notification, no listener called, no
\* packet, the session (key, IV, id, counter, promises, timers) unchanged;
\* and the reply after it, when its error code is zero and it carries data
\* or a sweep result, settles the pending invocation as usual.
C14_DeviceError ==
    [][ \A m \in DOMAIN devices :
          LET d  == devices[m]
              dn == devices'[m]
              received == last'.op = "onResponse" /\ last'.mac = m
          IN  /\ (received /\ last'.reply.err # 0)
                 => /\ notes' = << [src |-> "device", ev |-> "data-error",
                                    val |-> last'.reply.err] >>
                    /\ last'.ran = <<>>
                    /\ out' = <<>>
                    /\ dn = d
              /\ (received /\ last.op = "onResponse" /\ last.reply.err # 0)
                 => /\ \A i \in Unsettled(d.confirms) :
                          IsDataReply(last'.reply, 4)
                          => dn.confirms[i] =
                                Resolved(SubSeq(last'.reply.plain, 5, Len(last'.reply.plain)))
                    /\ \A i \in Unsettled(d.sweeps) :
                          IsDataReply(last'.reply, 26)
                          => dn.sweeps[i].state # "pending" ]_vars

\* C14 witness: a reply with error code 0xfff9, whose payload would report
\* a successful sweep, arrived while a sweep was pending; the sweep is
\* still pending and 'data-error' was emitted.
C14_Witness ==
    /\ last.op = "onResponse"
    /\ last.reply.err = \Hfff9
    /\ notes = << [src |-> "device", ev |-> "data-error", val |-> \Hfff9] >>
    /\ Unsettled(devices[last.mac].sweeps) = {1}
    /\ devices[last.mac].sweepHandler = 1

\* C15: no datagram delivered to a session socket or a discovery socket
\* makes its handler raise: no step ends in an uncaught exception.
C15_NoHandlerFails ==
    \A k \in 1..Len(notes) : notes[k].ev # "uncaughtException"

RECURSIVE WeightedCount(_, _, _)
\* The sum of the bytes of buf with a value in lo..hi: each value times the
\* number of its occurrences.
WeightedCount(buf, lo, hi) ==
    IF lo = hi
    THEN lo * Cardinality({ i \in 1..Len(buf) : buf[i] = lo })
    ELSE LET mid == (lo + hi) \div 2
         IN  WeightedCount(buf, lo, mid) + WeightedCount(buf, mid + 1, hi)

\* The reference checksum: 0xbeaf plus the sum of the bytes, modulo 65536.
ReferenceChecksum(buf) == (\Hbeaf + WeightedCount(buf, 0, 255)) % 65536

\* C16: in every packet the discovery path or the send path builds, the
\* 16-bit little-endian value at 0x20..0x21 is the reference checksum of
\* the packet with that field zero; the sum masked at every step (send
\* path) and the sum masked at the end (discovery) both equal the reference
\* on the payload sent; and 0x34..0x35 of a command packet is the reference
\* checksum of its plaintext payload.
C16_Checksums ==
    /\ \A k \in 1..Len(out) :
          LET p == out[k].data
          IN  Word(At(p, \H20), At(p, \H21))
                 = ReferenceChecksum(Put(Put(p, \H20, 0), \H21, 0))
    /\ last.op = "sendData"
          => LET payload == <<2, 0, 0, 0>> \o last.rx
                 p == out[1].data
             IN  /\ Len(out) = 1
                 /\ Word(At(p, \H34), At(p, \H35)) = ReferenceChecksum(payload)
                 /\ Checksum(payload) = ReferenceChecksum(payload)
                 /\ (ChecksumSeed + PlainSum(payload, 1, Len(payload))) % 65536
                       = ReferenceChecksum(payload)
    /\ last.op = "onListening" => (Len(out) = 1 /\ Len(out[1].data) = \H30)

\* C16 witness: a learned code was sent whose bytes carry the payload
\* checksum past 0xffff, in a command packet whose own checksum is right.
C16_Witness ==
    /\ last.op = "sendData"
    /\ \Hbeaf + WeightedCount(<<2, 0, 0, 0>> \o last.rx, 0, 255) > 65535
    /\ Word(At(out[1].data, \H34), At(out[1].data, \H35))
          = \Hbeaf + WeightedCount(<<2, 0, 0, 0>> \o last.rx, 0, 255) - 65536

\* The 'deviceReady' notifications the engine emitted for session m in the
\* notifications ns of a step.
EngineReady(ns, m) ==
    { k \in 1..Len(ns) :
         ns[k] = [src |-> "Broadlink", ev |-> "deviceReady", val |-> m] }

\* C17: the engine emits 'deviceReady' only for a session of the registry
\* and only in a step in which that session has processed a 0xe9 reply,
\* once per such reply; the step that accepts a new identity sends one
\* packet, the handshake request (command 0x65) to the new session's host,
\* and emits nothing, and a discovery reply that accepts nothing sends
\* nothing.
C17_ReadyAfterHandshake ==
    [][ /\ \A k \in 1..Len(notes') :
             (notes'[k].src = "Broadlink" /\ notes'[k].ev = "deviceReady")
             => /\ notes'[k].val \in DOMAIN devices
                /\ IsHandshakeStep(notes'[k].val)
        /\ \A m \in DOMAIN devices :
             IsHandshakeStep(m) => Cardinality(EngineReady(notes', m)) = 1
        /\ \A m \in DOMAIN devices' \ DOMAIN devices :
             /\ last'.op = "onMessage"
             /\ DOMAIN devices' = DOMAIN devices \cup {m}
             /\ Len(out') = 1
             /\ out'[1].to = devices'[m].host
             /\ At(out'[1].data, \H26) = \H65
             /\ notes' = <<>>
        /\ (last'.op = "onMessage" /\ DOMAIN devices' = DOMAIN devices)
             => out' = <<>> ]_vars

\* C17 witness: a session accepted by the engine processed its handshake
\* reply and the engine emitted 'deviceReady' for it.
C17_Witness ==
    /\ last.op = "onResponse"
    /\ last.reply.command = \He9
    /\ last.mac \in DOMAIN devices
    /\ EngineReady(notes, last.mac) # {}
    /\ devices[last.mac].key # PresharedKey

\* C18: every sweepFrequency and every confirmFrequency invocation is
\* settled in the end, on RF and non-RF sessions alike; while it is
\* unsettled its timeout timer is pending with at most 30 s (sweep) or 10 s
\* (confirm) left, so it is settled no later than its timeout.
C18_EventuallySettles ==
    /\ [](\A i \in Unsettled(devices[SessionMac].sweeps) :
             \E k \in 1..Len(devices[SessionMac].timers) :
                LET t == devices[SessionMac].timers[k]
                IN  t.kind = "sweepTimeout" /\ t.inst = i /\ t.left \in 0..30000)
    /\ [](\A i \in Unsettled(devices[SessionMac].confirms) :
             \E k \in 1..Len(devices[SessionMac].timers) :
                LET t == devices[SessionMac].timers[k]
                IN  t.kind = "dataTimeout" /\ t.inst = i /\ t.left \in 0..10000)
    /\ \A i \in 1..(MaxCalls + 1) :
          /\ (i \in Unsettled(devices[SessionMac].sweeps))
                ~> (i \in DOMAIN devices[SessionMac].sweeps \ Unsettled(devices[SessionMac].sweeps))
          /\ (i \in Unsettled(devices[SessionMac].confirms))
                ~> (i \in DOMAIN devices[SessionMac].confirms \ Unsettled(devices[SessionMac].confirms))

\* C18 witness: on a session without RF capability a sweep that got no
\* notification was rejected by its timeout.
C18_Witness ==
    /\ last.op = "sweepTimeout"
    /\ ~devices[SessionMac].capabilites.RF
    /\ budget.replies = 0
    /\ devices[SessionMac].sweeps = <<Rejected("RF sweep did not return any result")>>
    /\ devices[SessionMac].timers = <<>>

\* C19: the ciphertext the send path produces for a plaintext of a whole
\* number of 16-byte blocks has the length of the plaintext, and the
\* receive path's decryption of it under the session's key and IV is the
\* plaintext.
C19_EncryptDecrypt ==
    last.op = "sendData"
    => LET d == devices[last.mac]
           plain == <<2, 0, 0, 0>> \o last.rx
           cipher == SubSeq(out[1].data, \H38 + 1, Len(out[1].data))
       IN  Len(plain) % 16 = 0
           => /\ Len(cipher) = Len(plain)
              /\ Decipher(d.key, d.iv, cipher) = plain

\* C19 witness: a session whose key the handshake replaced sent five
\* blocks, most of their bytes 0xff, and the ciphertext is not the
\* plaintext.
C19_Witness ==
    /\ last.op = "sendData"
    /\ Len(last.rx) = 76
    /\ last.rx[60] = \Hff
    /\ devices[last.mac].key # PresharedKey
    /\ Len(out[1].data) = \H38 + 80
    /\ SubSeq(out[1].data, \H38 + 1, \H38 + 80) # <<2, 0, 0, 0>> \o last.rx

\* The elements of a sequence.
Range(seq) == { seq[k] : k \in 1..Len(seq) }

\* C20: a sweepFrequency or confirmFrequency invocation is destroyed when
\* it settles: a settled invocation has no listener registered and no timer
\* pending, so that it sends no poll after it settled, and the number of
\* 'sweep' and 'data' listeners does not grow with the invocations made.
C20_DestroyedWhenSettled ==
    [][ \A m \in DOMAIN devices :
          LET d  == devices[m]
              dn == devices'[m]
          IN  /\ \A i \in DOMAIN dn.sweeps \ Unsettled(dn.sweeps) :
                    /\ i \notin Range(dn.listeners.sweep)
                    /\ ~HasTimer(dn, "sweepTimeout", i)
                    /\ ~HasTimer(dn, "checkRFSweep", i)
              /\ \A i \in DOMAIN dn.confirms \ Unsettled(dn.confirms) :
                    /\ i \notin Range(dn.listeners.data)
                    /\ ~HasTimer(dn, "dataTimeout", i)
                    /\ ~HasTimer(dn, "checkData", i)
              /\ (last'.op = "checkRFSweep" /\ last'.mac = m)
                    => (last'.ret \in Unsettled(d.sweeps) \/ out' = <<>>)
              /\ (last'.op = "checkData" /\ last'.mac = m)
                    => (last'.ret \in Unsettled(d.confirms) \/ out' = <<>>)
              /\ Len(dn.listeners.sweep) <= 1
              /\ Len(dn.listeners.data) <= 1 ]_vars

-----------------------------------------------------------------------------
(* Properties of the packets of the RF learning operations. *)

\* The sequence number datagram p carries at 0x28..0x29.
SequenceOf(p) == Word(At(p.data, \H28), At(p.data, \H29))

\* The number of packets an RF session has sent when it has sent its
\* handshake request and, for every sweepFrequency invocation, the
\* enter-RF-sweep command, the poll once its 10 s timer is gone and the
\* cancel command once it timed out, and, for every confirmFrequency
\* invocation, the find-RF-packet command and the poll once its 5 s timer
\* is gone.
PacketsOf(d) ==
    1 + Len(d.sweeps)
      + Cardinality({ i \in DOMAIN d.sweeps : ~HasTimer(d, "checkRFSweep", i) })
      + Cardinality({ i \in DOMAIN d.sweeps :
                         d.sweeps[i] = Rejected("RF sweep did not return any result") })
      + Len(d.confirms)
      + Cardinality({ i \in DOMAIN d.confirms : ~HasTimer(d, "checkData", i) })

\* Timer t is one of the pending timers of session d.
TimerOf(d, t) == \E k \in 1..Len(d.timers) : d.timers[k] = t

\* C21: on an RF session a sweepFrequency invocation sends enter-RF-sweep
\* (0x19) when it is made, check-RF-sweep (0x1a) when its 10 s timer fires
\* (20 s before its timeout) and, when no notification settled it, cancel
\* (0x1e) when its 30 s timer fires, after the poll; a confirmFrequency
\* invocation sends find-RF-packet (0x1b) when it is made and check-data (4)
\* when its 5 s timer fires (5 s before its timeout), and its timeout sends
\* nothing.  These are all the packets the session sends, one per step,
\* each under outer command 0x6a and each with the sequence number of the
\* session's previous packet plus one modulo 65536; and every invocation
\* gets to the end of its timers.
C21_LearningPackets ==
    /\ [](\A m \in DOMAIN devices :
             HasRF(devices[m]) => devices[m].count = PacketsOf(devices[m]) % 65536)
    /\ [][ \A m \in DOMAIN devices :
             LET d  == devices[m]
                 dn == devices'[m]
                 i  == last'.ret
                 Sent(op) == /\ Len(out') = 1
                             /\ IsCommandPacket(dn, out'[1], op)
                             /\ SequenceOf(out'[1]) = (d.count + 1) % 65536
                             /\ dn.count = (d.count + 1) % 65536
                 Silent == out' = <<>> /\ dn.count = d.count
             IN  (HasRF(d) /\ last'.mac = m)
                 => CASE last'.op = "sweepFrequency" /\ Len(dn.sweeps) > Len(d.sweeps) ->
                           /\ Sent(\H19)
                           /\ TimerOf(dn, [kind |-> "checkRFSweep", inst |-> i, left |-> 10000])
                           /\ TimerOf(dn, [kind |-> "sweepTimeout", inst |-> i, left |-> 30000])
                      [] last'.op = "checkRFSweep" ->
                           /\ Sent(\H1a)
                           /\ TimerOf(d, [kind |-> "checkRFSweep", inst |-> i, left |-> 0])
                           /\ i \in Unsettled(d.sweeps)
                                 => TimerOf(d, [kind |-> "sweepTimeout", inst |-> i,
                                                left |-> 20000])
                      [] last'.op = "sweepTimeout" ->
                           /\ Sent(\H1e)
                           /\ TimerOf(d, [kind |-> "sweepTimeout", inst |-> i, left |-> 0])
                           /\ ~HasTimer(d, "checkRFSweep", i)
                      [] last'.op = "confirmFrequency" /\ Len(dn.confirms) > Len(d.confirms) ->
                           /\ Sent(\H1b)
                           /\ TimerOf(dn, [kind |-> "checkData", inst |-> i, left |-> 5000])
                           /\ TimerOf(dn, [kind |-> "dataTimeout", inst |-> i, left |-> 10000])
                      [] last'.op = "checkData" ->
                           /\ Sent(4)
                           /\ TimerOf(d, [kind |-> "checkData", inst |-> i, left |-> 0])
                           /\ i \in Unsettled(d.confirms)
                                 => TimerOf(d, [kind |-> "dataTimeout", inst |-> i,
                                                left |-> 5000])
                      [] OTHER -> Silent ]_vars
    /\ \A i \in 1..MaxCalls :
          /\ (i \in DOMAIN devices[SessionMac].sweeps)
                ~> (/\ ~HasTimer(devices[SessionMac], "checkRFSweep", i)
                    /\ ~HasTimer(devices[SessionMac], "sweepTimeout", i))
          /\ (i \in DOMAIN devices[SessionMac].confirms)
                ~> (/\ ~HasTimer(devices[SessionMac], "checkData", i)
                    /\ ~HasTimer(devices[SessionMac], "dataTimeout", i))

\* C21 witness: an RF session made a sweep and a confirm and received
\* nothing; both timed out, and with the cancel command of the sweep the
\* session has sent its sixth packet: the handshake request, three packets
\* of the sweep, two of the confirm.
C21_Witness ==
    /\ last.op = "sweepTimeout"
    /\ budget.replies = 0
    /\ HasRF(devices[last.mac])
    /\ devices[last.mac].sweeps = <<Rejected("RF sweep did not return any result")>>
    /\ devices[last.mac].confirms = <<Rejected("Did not get RF data from device")>>
    /\ devices[last.mac].timers = <<>>
    /\ Len(out) = 1
    /\ IsCommandPacket(devices[last.mac], out[1], \H1e)
    /\ SequenceOf(out[1]) = 6

\* The pending timers of session d of the given kinds, in their order.
TimersOfKind(d, kinds) ==
    LET Is(t) == t.kind \in kinds IN SelectSeq(d.timers, Is)

\* What a session holds of its confirmFrequency invocations: the promises,
\* the handler, the listeners and the timers.
ConfirmPart(d) ==
    [ confirms |-> d.confirms, confirmHandler |-> d.confirmHandler,
      listeners |-> d.listeners.data,
      timers |-> TimersOfKind(d, {"dataTimeout", "checkData"}) ]

\* What a session holds of its sweepFrequency invocations.
SweepPart(d) ==
    [ sweeps |-> d.sweeps, sweepHandler |-> d.sweepHandler,
      listeners |-> d.listeners.sweep,
      timers |-> TimersOfKind(d, {"sweepTimeout", "checkRFSweep"}) ]

\* C22: sweep and confirm are independent.  A sweepFrequency() is started
\* whether or not a confirm is in flight, and a confirmFrequency() whether
\* or not a sweep is; a 'sweep' notification, the sweep's poll and the
\* sweep's timeout leave the promises, the handler, the listeners and the
\* timers of confirmFrequency as they are, and a 'data' notification, the
\* confirm's poll and the confirm's timeout leave those of sweepFrequency
\* as they are.
C22_SweepConfirmIndependent ==
    [][ \A m \in DOMAIN devices :
          LET d  == devices[m]
              dn == devices'[m]
          IN  last'.mac = m
              => /\ (\/ last'.op \in {"sweepFrequency", "sweepTimeout", "checkRFSweep"}
                     \/ last'.op = "onResponse" /\ IsDataReply(last'.reply, 26))
                       => ConfirmPart(dn) = ConfirmPart(d)
                 /\ (\/ last'.op \in {"confirmFrequency", "dataTimeout", "checkData"}
                     \/ last'.op = "onResponse" /\ IsDataReply(last'.reply, 4))
                       => SweepPart(dn) = SweepPart(d)
                 /\ (last'.op = "sweepFrequency" /\ ~SweepInFlight(d))
                       => /\ Len(dn.sweeps) = Len(d.sweeps) + 1
                          /\ last'.ret \in Unsettled(dn.sweeps)
                 /\ (last'.op = "confirmFrequency" /\ ~ConfirmInFlight(d))
                       => /\ Len(dn.confirms) = Len(d.confirms) + 1
                          /\ last'.ret \in Unsettled(dn.confirms) ]_vars

\* C22 witness: a sweep and a confirm were in flight together; the 'sweep'
\* notification resolved the sweep, and the confirm is pending as before,
\* its listener registered and both its timers running.
C22_Witness ==
    /\ last.op = "onResponse"
    /\ IsDataReply(last.reply, 26)
    /\ last.ran = <<[ev |-> "sweep", inst |-> 1]>>
    /\ devices[last.mac].sweeps = <<Resolved(<<>>)>>
    /\ devices[last.mac].confirms = <<Pending>>
    /\ devices[last.mac].confirmHandler = 1
    /\ devices[last.mac].listeners.data = <<1>>
    /\ HasTimer(devices[last.mac], "dataTimeout", 1)
    /\ HasTimer(devices[last.mac], "checkData", 1)

-----------------------------------------------------------------------------
(* Properties of the replies a session processes. *)

\* The notifications of event ev the session itself emitted among the
\* notifications ns of a step.
Emitted(ns, ev) == { k \in 1..Len(ns) : ns[k].src = "device" /\ ns[k].ev = ev }

\* C23 (amended): processing a reply with command byte 0xe9 and error code
\* zero sets the key to the sixteen bytes 0x04..0x13 of the decrypted
\* payload and the session id to its bytes 0..3, and emits one ready
\* notification of the session for that reply and no other notification of
\* the session.
C23_HandshakeReply ==
    [][ \A m \in DOMAIN devices :
           IsHandshakeStep(m)
           => LET plain == last'.reply.plain
                  dn == devices'[m]
              IN  /\ Len(dn.key) = 16
                  /\ \A k \in 0..15 : At(dn.key, k) = At(plain, \H04 + k)
                  /\ Len(dn.id) = 4
                  /\ \A k \in 0..3 : At(dn.id, k) = At(plain, k)
                  /\ Cardinality(Emitted(notes', "deviceReady")) = 1
                  /\ \A k \in 1..Len(notes') :
                        notes'[k].src = "device" => notes'[k].ev = "deviceReady" ]_vars

\* C23 witness: a session that had taken the key 161..176 from a first
\* handshake reply processed a second one: its key is now 201..216, all
\* sixteen bytes, its id 8, 0, 0, 2, and it emitted one ready notification.
C23_Witness ==
    /\ last.op = "onResponse"
    /\ last.reply = [err |-> 0, command |-> \He9, plain |-> RehandshakePlain]
    /\ budget.replies = 2
    /\ devices[last.mac].key = [i \in 1..16 |-> 200 + i]
    /\ devices[last.mac].id = <<8, 0, 0, 2>>
    /\ Cardinality(Emitted(notes, "deviceReady")) = 1

\* C23 as stated: the key a 0xe9 reply installs is 14 contiguous bytes of
\* the decrypted payload (alone, or in a 16-byte buffer otherwise zero).
C23_KeyOfFourteenBytes ==
    [][ \A m \in DOMAIN devices :
           IsHandshakeStep(m)
           => \E o \in 0..(Len(last'.reply.plain) - 14) :
                 \/ devices'[m].key = SubSeq(last'.reply.plain, o + 1, o + 14)
                 \/ devices'[m].key = SubSeq(last'.reply.plain, o + 1, o + 14) \o <<0, 0>> ]_vars

\* A reply with error code zero that no branch of the receive path
\* handles.
IsIgnoredReply(r) ==
    /\ r.err = 0
    /\ \/ r.command \notin {\He9, \Hee, \Hef}
       \/ r.command \in {\Hee, \Hef} /\ At(r.plain, 0) \notin {1, 4, 26, 27}

\* C24: a reply with error code zero whose command byte is none of 0xe9,
\* 0xee, 0xef, and a data reply whose parameter id is none of 1, 4, 26, 27,
\* emits no notification, sends nothing and leaves the session as it was:
\* key, IV, id, sequence counter, the sweep and the confirm in flight with
\* their promises, listeners and timers.
C24_IgnoredReplies ==
    [][ (last'.op = "onResponse" /\ IsIgnoredReply(last'.reply))
        => /\ notes' = <<>>
           /\ out' = <<>>
           /\ last'.ran = <<>>
           /\ devices' = devices ]_vars

\* C24 witness: a session with a sweep and a confirm in flight processed a
\* data reply with parameter id 2, after a reply with a command byte it
\* does not know or a handshake reply: nothing was emitted and both are
\* pending.
C24_Witness ==
    /\ last.op = "onResponse"
    /\ last.reply = [err |-> 0, command |-> \Hee, plain |-> Payload(2, <<21, 5>>, 16)]
    /\ budget.replies = 2
    /\ notes = <<>>
    /\ devices[last.mac].sweeps = <<Pending>>
    /\ devices[last.mac].confirms = <<Pending>>
    /\ devices[last.mac].sweepHandler = 1
    /\ devices[last.mac].confirmHandler = 1

-----------------------------------------------------------------------------
(* Properties of the classification of src/src/index.ts. *)

\* C25: the addDevice of src/src/index.ts reaches an ignore branch for
\* every device type in 0..65535: the non-RF and the RF table have no type
\* in common, so a type that passed the unsupported-table and the range
\* test is absent from one of them and is reported as unknown; the branch
\* that reports a found device is never reached and no session is created.
C25_VariantIgnoresEveryType ==
    /\ rmDeviceTypes \cap rmPlusDeviceTypes = {}
    /\ last.op = "addDeviceVariant"
       => /\ Len(notes) = 1
          /\ notes[1].val \in {"Ignoring unsupported device type",
                               "Ignoring unknown device type"}
          /\ last.arg \in rmDeviceTypes \cup rmPlusDeviceTypes
                => notes[1].val = "Ignoring unknown device type"
          /\ DOMAIN devices = {}

\* C25 witness: the type 0x272a of the RF table, which is in no ignore
\* list, was reported as an unknown device type.
C25_Witness ==
    /\ last.op = "addDeviceVariant"
    /\ last.arg = \H272a
    /\ last.arg \in rmPlusDeviceTypes
    /\ notes = << Note("console", "log", "Ignoring unknown device type") >>
    /\ DOMAIN devices = {}

-----------------------------------------------------------------------------
(* Properties of a new session. *)

\* C26: the sequence counter of a new session starts at a random 16-bit
\* value: over the random numbers the constructor may draw, every value of
\* 0..65535 is an initial counter, and the sequence number of the session's
\* first packet is not the same for all of them.
C26_RandomInitialCounter ==
    last.op = "newSession"
    => /\ { MathRandomAnd(k) : k \in Draws } = 0..65535
       /\ \E k \in Draws : NextCount(MathRandomAnd(k)) # SequenceOf(out[1])

-----------------------------------------------------------------------------
(* Properties of the identity of a discovery reply. *)

\* The six bytes of a discovery reply at 0x3D, 0x3E, 0x3F, 0x3C, 0x3B, 0x3A.
IdentityBytes(message) ==
    << At(message, \H3D), At(message, \H3E), At(message, \H3F),
       At(message, \H3C), At(message, \H3B), At(message, \H3A) >>

\* C27: for a discovery reply of at least 0x40 bytes the identity is the
\* reply's bytes at 0x3D, 0x3E, 0x3F, 0x3C, 0x3B, 0x3A in this order,
\* whatever follows them in a longer reply, and the device type is byte
\* 0x34 plus 256 times byte 0x35: a reply of an accepted type whose six
\* bytes differ from those of every session gets a new session with these
\* bytes and this type under the key of these bytes; a reply whose six
\* bytes are those of a session changes nothing, whatever its type, length
\* and sender; and a session's key is the key of a reply exactly when its
\* six bytes are the reply's.
C27_IdentityOfReply ==
    [][ last'.op = "onMessage"
        => LET message == last'.rx
               mac == IdentityBytes(message)
               type == At(message, \H34) + 256 * At(message, \H35)
               key == ToHex(mac)
               same == { m \in DOMAIN devices : devices[m].mac = mac }
           IN  /\ Len(message) >= \H40
               /\ last'.mac = key
               /\ \A m \in DOMAIN devices : m = key <=> m \in same
               /\ same # {} => (devices' = devices /\ out' = <<>>)
               /\ (same = {} /\ ~IgnoredType(type))
                     => /\ DOMAIN devices' = DOMAIN devices \cup {key}
                        /\ devices'[key].mac = mac
                        /\ devices'[key].type = type
                        /\ \A m \in DOMAIN devices : devices'[m] = devices[m]
               /\ (same = {} /\ IgnoredType(type)) => devices' = devices ]_vars

\* C27 witness: after a reply of 0x40 bytes with the bytes 1..6 at
\* 0x3A..0x3F had given the session 4, 5, 6, 3, 2, 1, a reply of 0x48 bytes
\* and another type with the same six bytes was received: there is still
\* this one session.
C27_Witness ==
    /\ last.op = "onMessage"
    /\ budget.replies = 2
    /\ Len(last.rx) = \H48
    /\ SubSeq(last.rx, \H3A + 1, \H3F + 1) = <<1, 2, 3, 4, 5, 6>>
    /\ DOMAIN devices = { ToHex(<<4, 5, 6, 3, 2, 1>>) }
    /\ devices[ToHex(<<4, 5, 6, 3, 2, 1>>)].mac = <<4, 5, 6, 3, 2, 1>>
    /\ devices[ToHex(<<4, 5, 6, 3, 2, 1>>)].type = \H2737
    /\ At(last.rx, \H34) + 256 * At(last.rx, \H35) = \H272a
    /\ out = <<>>

\* C28: a data reply (command 0xee or 0xef, error code zero) is decoded by
\* its payload byte 0: 1 emits temperature with (byte 4 * 10 + byte 5) / 10,
\* held in tenths; 4 emits data with the payload bytes from offset 4 to the
\* end; 26 emits sweep with success true iff payload byte 4 is 1; 27 emits
\* rf-data with the one payload byte 4; and the reply emits this one
\* notification and no other.
C28_DataReplyDecoding ==
    [][ (/\ last'.op = "onResponse"
         /\ \E param \in {1, 4, 26, 27} : IsDataReply(last'.reply, param))
        => LET payload == last'.reply.plain
               param == At(payload, 0)
           IN  /\ Len(notes') = 1
               /\ notes'[1].src = "device"
               /\ param = 1
                     => /\ notes'[1].ev = "temperature"
                        /\ notes'[1].val = At(payload, 4) * 10 + At(payload, 5)
               /\ param = 4
                     => /\ notes'[1].ev = "data"
                        /\ notes'[1].val = SubSeq(payload, 5, Len(payload))
               /\ param = 26
                     => /\ notes'[1].ev = "sweep"
                        /\ notes'[1].val = (At(payload, 4) = 1)
               /\ param = 27
                     => /\ notes'[1].ev = "rf-data"
                        /\ notes'[1].val = << At(payload, 4) >> ]_vars

\* C28 witness: a reply with parameter id 27 and the bytes 7, 8, 9 from
\* offset 4 emitted rf-data with the one byte 7 and nothing else.
C28_Witness ==
    /\ last.op = "onResponse"
    /\ IsDataReply(last.reply, 27)
    /\ SubSeq(last.reply.plain, 5, 7) = <<7, 8, 9>>
    /\ notes = << Note("device", "rf-data", <<7>>) >>

-----------------------------------------------------------------------------
(* Properties of the length of a packet. *)

\* C29: a packet of the send path for a plaintext payload of n bytes has
\* 0x38 + 16 * floor(n / 16) bytes: what follows the header decrypts to the
\* first 16 * floor(n / 16) bytes of the plaintext, so that no padding is
\* added and the last n mod 16 bytes of the plaintext are not in the packet
\* (a payload of fewer than 16 bytes leaves the header alone), while the
\* checksum at 0x34..0x35 is that of all n bytes; the handshake request,
\* with its 0x50 bytes, has 0x38 + 0x50.
C29_PacketLength ==
    /\ last.op = "sendData"
          => LET d == devices[last.mac]
                 plain == <<2, 0, 0, 0>> \o last.rx
                 n == Len(plain)
                 whole == 16 * (n \div 16)
                 p == out[1].data
             IN  /\ Len(out) = 1
                 /\ Len(p) = \H38 + whole
                 /\ Decipher(d.key, d.iv, SubSeq(p, \H38 + 1, Len(p)))
                       = SubSeq(plain, 1, whole)
                 /\ Word(At(p, \H34), At(p, \H35)) = ReferenceChecksum(plain)
    /\ last.op = "onMessage"
          => (Len(out) = 1 /\ Len(out[1].data) = \H38 + \H50)

\* C29 witness: a code of 75 bytes, all of them 0xff, was sent: of the 79
\* bytes of the plaintext the packet carries 64, the last 15 are missing,
\* and the checksum in the header is that of the 79 and not that of the 64.
C29_Witness ==
    /\ last.op = "sendData"
    /\ last.rx = [i \in 1..75 |-> \Hff]
    /\ Len(out[1].data) = \H38 + 64
    /\ Word(At(out[1].data, \H34), At(out[1].data, \H35))
          = ReferenceChecksum(<<2, 0, 0, 0>> \o last.rx)
    /\ Word(At(out[1].data, \H34), At(out[1].data, \H35))
          # ReferenceChecksum(SubSeq(<<2, 0, 0, 0>> \o last.rx, 1, 64))

=============================================================================
